---- MODULE Spec2Model ----
(***************************************************************************)
(* Model of the query compilation and join resolution of                   *)
(* lsst.rubintv.analysis.service (database.py, query.py).                  *)
(*                                                                         *)
(*   Spec       JoinBuilder: graph construction and build_join             *)
(*   SpecTree   Query.from_dict and the evaluation of the Query built      *)
(*   SpecQuery  ConsDbSchema.query: column models, predicate, join, fetch  *)
(***************************************************************************)
EXTENDS Integers, Sequences, FiniteSets, TLC

VARIABLES
    tables,         \* JoinBuilder.tables / ConsDbSchema.tables: name -> set of column names
    joins,          \* JoinBuilder.joins: the list of join templates
    join_graph,     \* JoinBuilder.join_graph: name -> ordered dict neighbour -> column pairs
    pc,             \* position of the running call
    tables_list,    \* build_join: tables = list(table_names)
    i,              \* build_join: index of the outer loop
    join_path,      \* build_join: the path found for tables[i]
    j,              \* build_join: index of the inner loop
    joined_tables,  \* build_join: joined_tables
    select_from,    \* build_join: select_from, the chain of joins built so far
    outcome,        \* what the call returned: "none", "join" or the exception raised
    prev,           \* the result of the previous build_join call on the same table set
    find_calls,     \* calls of _find_join_path made by the running build_join
    wire,           \* the query of a request as it arrives, a dict
    query,          \* the Query built by Query.from_dict
    query_result,   \* the QueryResult of query(database), or the exception raised
    columns,        \* ConsDbSchema.query: the requested "table.column" names
    data_ids,       \* ConsDbSchema.query: the requested data ids, if any
    table_columns,  \* ConsDbSchema.query: the labelled columns to select
    table_names,    \* ConsDbSchema.query: the tables to join
    data_id_columns,\* ConsDbSchema.query: the day_obs and seq_num columns
    query_model,    \* ConsDbSchema.query: the WHERE clause
    result,         \* ConsDbSchema.query: the rows fetched
    reference,      \* get_column: the "table.column" string, as a sequence of tokens
    looked_up,      \* get_column: the column returned, or the exception raised
    stored,         \* the database: the cells of the column exposure.ra, row by row
    command,        \* the command received by the worker
    contents,       \* build_contents: the dict returned, or the exception raised
    response,       \* the response sent for the command
    connections,    \* the connections of the engine that are checked out
    metadata,       \* ConsDbSchema.metadata: the keys of the tables it holds
    bounds,         \* calculate_bounds: col_min and col_max, as far as computed
    clients,        \* mock server: WebSocketHandler.clients, the ids of the open clients
    workers,        \* mock server: WebSocketHandler.workers, in insertion order
    queue,          \* mock server: WebSocketHandler.queue
    inbox,          \* the jobs written to each worker's socket and not yet answered
    delivered,      \* the replies written to clients, each with the client it went to
    posted,         \* the number of messages each client has sent
    dispatched,     \* the messages handed to WorkerPod.process
    used,           \* the ids uuid4 has given out
    base_path,      \* sanitize_path: base_path
    user_path,      \* sanitize_path: user_path, a list of strings
    sanitized       \* sanitize_path: the path returned, or the exception raised

joinVars == <<tables, joins, join_graph>>
buildVars == <<pc, tables_list, i, join_path, j, joined_tables, select_from, outcome, prev,
               find_calls>>
treeVars == <<wire, query, query_result>>
requestVars == <<columns, data_ids, table_columns, table_names, data_id_columns, query_model,
                 result>>
callVars == <<treeVars, requestVars>>
engineVars == <<connections, metadata, bounds>>
serverVars == <<clients, workers, queue, inbox, delivered, posted, dispatched, used>>
pathVars == <<base_path, user_path, sanitized>>
extraVars == <<engineVars, serverVars, pathVars>>
commandVars == <<reference, looked_up, stored, command, contents, response, extraVars>>
vars == <<joinVars, buildVars, callVars, commandVars>>

(***************************************************************************)
(* Bounds of the model.                                                    *)
(***************************************************************************)
MaxJoins == 3       \* join templates in the list handed to JoinBuilder
MaxRequest == 3     \* tables in one build_join request
MaxChildren == 3    \* children of one ParentQuery in a request
MaxColumns == 2     \* columns in one query() request
MaxClients == 2     \* client connections ever opened
MaxWorkers == 2     \* worker connections ever opened
MaxMessages == 2    \* messages one client sends
MaxComponents == 2  \* components in one user_path

(***************************************************************************)
(* Generic helpers: sequences and Python's insertion-ordered dict, kept as *)
(* a sequence of [key, value] entries.                                     *)
(***************************************************************************)
Range(s) == {s[k] : k \in DOMAIN s}

NoDup(s) == \A a, b \in DOMAIN s : a # b => s[a] # s[b]

\* all orderings of the elements of a set: what list(a_set) can return
Orderings(S) == {s \in [1..Cardinality(S) -> S] : Range(s) = S}

\* the elements of a set in the order the model iterates the set
RECURSIVE SetToSeq(_)
SetToSeq(S) ==
    IF S = {} THEN <<>>
    ELSE LET x == CHOOSE x \in S : TRUE IN <<x>> \o SetToSeq(S \ {x})

DictKeys(d) == [k \in DOMAIN d |-> d[k].key]

DictHas(d, key) == \E k \in DOMAIN d : d[k].key = key

DictGet(d, key) == (CHOOSE e \in Range(d) : e.key = key).value

\* d.setdefault(key, value): an existing key keeps its value
DictSetDefault(d, key, value) ==
    IF DictHas(d, key) THEN d ELSE Append(d, [key |-> key, value |-> value])

\* d[key] = value: an existing key keeps its position, a new key goes last
DictSet(d, key, value) ==
    IF DictHas(d, key)
    THEN [k \in DOMAIN d |-> IF d[k].key = key THEN [key |-> key, value |-> value] ELSE d[k]]
    ELSE Append(d, [key |-> key, value |-> value])

\* list(zip(a, b)): pairs up to the shorter list
Zip(a, b) ==
    LET n == IF Len(a) < Len(b) THEN Len(a) ELSE Len(b)
    IN [k \in 1..n |-> <<a[k], b[k]>>]

(***************************************************************************)
(* The schema of the model: table families (database.py) and the columns   *)
(* of the live tables.                                                     *)
(***************************************************************************)
exposure_tables ==
    <<"exposure", "exposure_quicklook", "ccdexposure", "ccdexposure_camera",
      "ccdexposure_quicklook">>

visit1_tables == <<"visit1", "visit1_quicklook", "ccdvisit1", "ccdvisit1_quicklook">>

\* the live tables of the modelled database and their columns
LiveTables ==
    [t \in {"exposure", "visit1", "visit1_quicklook", "ccdvisit1"} |->
        CASE t = "exposure" -> {"exposure_id", "day_obs", "seq_num", "ra", "dec"}
          [] t = "visit1" -> {"visit_id", "day_obs", "seq_num"}
          [] t = "visit1_quicklook" -> {"visit_id", "exp_time"}
          [] t = "ccdvisit1" -> {"ccdvisit_id", "visit_id"}]

\* a join template {"matches": {t1: c1, t2: c2}}, keys in this order
Template(t1, c1, t2, c2) == [t1 |-> t1, c1 |-> c1, t2 |-> t2, c2 |-> c2]

\* the join templates a joins file may hold
JoinTemplates ==
    { Template("exposure", <<"exposure_id">>, "visit1", <<"visit_id">>),
      Template("visit1", <<"visit_id">>, "visit1_quicklook", <<"visit_id">>),
      Template("visit1", <<"visit_id">>, "ccdvisit1", <<"visit_id">>),
      Template("visit1_quicklook", <<"visit_id">>, "exposure", <<"exposure_id">>),
      \* a template without column pairs
      Template("ccdvisit1", <<>>, "exposure", <<>>),
      \* a template naming a column the live table does not have
      Template("exposure", <<"exposure_id">>, "ccdvisit1", <<"detector">>),
      \* a template naming a table that is not in the database
      Template("exposure", <<"exposure_id">>, "ccdexposure", <<"exposure_id">>) }

JoinLists ==
    UNION {{s \in [1..n -> JoinTemplates] : NoDup(s)} : n \in 0..MaxJoins}

\* the reverse edge with the column pairs as they are
SameColumns(join_columns) == join_columns

(***************************************************************************)
(* JoinBuilder._build_join_graph                                           *)
(***************************************************************************)
\* graph[t2][t1] = [(col2, col1) for col1, col2 in join_columns]
MirrorColumns(join_columns) ==
    [k \in DOMAIN join_columns |-> <<join_columns[k][2], join_columns[k][1]>>]

\* AddJoin without the test of line 126: the edge is entered for every table
\* of the template that is a node
AddJoinUnchecked(tabs, graph, join) ==
    LET join_columns == Zip(join.c1, join.c2)
        g1 == IF join.t1 \in DOMAIN graph
              THEN [graph EXCEPT ![join.t1] = DictSet(@, join.t2, join_columns)]
              ELSE graph
    IN IF join.t2 \in DOMAIN g1
       THEN [g1 EXCEPT ![join.t2] = DictSet(@, join.t1, MirrorColumns(join_columns))]
       ELSE g1

\* one iteration of "for join in self.joins"
AddJoin(tabs, graph, join) ==
    IF join.t1 \notin DOMAIN tabs \/ join.t2 \notin DOMAIN tabs
    THEN graph
    ELSE LET join_columns == Zip(join.c1, join.c2)
             g1 == [graph EXCEPT ![join.t1] = DictSet(@, join.t2, join_columns)]
         IN [g1 EXCEPT ![join.t2] = DictSet(@, join.t1, MirrorColumns(join_columns))]

RECURSIVE AddJoins(_, _, _, _)
AddJoins(tabs, graph, js, k) ==
    IF k > Len(js) THEN graph
    ELSE AddJoins(tabs, AddJoin(tabs, graph, js[k]), js, k + 1)

build_join_graph(tabs, js) ==
    AddJoins(tabs, [t \in DOMAIN tabs |-> <<>>], js, 1)

(***************************************************************************)
(* JoinBuilder._find_join_path                                             *)
(***************************************************************************)
\* the neighbours of node that the inner for loop puts on the queue
Unvisited(graph, node, visited) ==
    SelectSeq(DictKeys(graph[node]), LAMBDA n : n \notin visited)

\* BfsStep with the queue used as a stack: queue.pop() for queue.pop(0)
BfsStepLifo(graph, st, end) ==
    LET last == st.queue[Len(st.queue)]
        node == last.node
        path == last.path
        rest == SubSeq(st.queue, 1, Len(st.queue) - 1)
    IN IF node \in st.visited
       THEN [st EXCEPT !.queue = rest]
       ELSE IF node = end
            THEN [st EXCEPT !.queue = rest, !.found = path]
            ELSE LET visited == st.visited \cup {node}
                     new == Unvisited(graph, node, visited)
                 IN [queue |-> rest \o [k \in DOMAIN new |->
                                          [node |-> new[k], path |-> Append(path, new[k])]],
                     visited |-> visited,
                     found |-> <<>>]

\* BfsStep without visited.add(node)
BfsStepNoVisited(graph, st, end) ==
    LET node == Head(st.queue).node
        path == Head(st.queue).path
        rest == Tail(st.queue)
    IN IF node = end
       THEN [st EXCEPT !.queue = rest, !.found = path]
       ELSE LET new == DictKeys(graph[node])
            IN [queue |-> rest \o [k \in DOMAIN new |->
                                     [node |-> new[k], path |-> Append(path, new[k])]],
                visited |-> st.visited,
                found |-> <<>>]

\* one iteration of "while queue"; st = [queue, visited, found]
BfsStep(graph, st, end) ==
    LET node == Head(st.queue).node
        path == Head(st.queue).path
        rest == Tail(st.queue)
    IN IF node \in st.visited
       THEN [st EXCEPT !.queue = rest]
       ELSE IF node = end
            THEN [st EXCEPT !.queue = rest, !.found = path]
            ELSE LET visited == st.visited \cup {node}
                     new == Unvisited(graph, node, visited)
                 IN [queue |-> rest \o [k \in DOMAIN new |->
                                          [node |-> new[k], path |-> Append(path, new[k])]],
                     visited |-> visited,
                     found |-> <<>>]

\* BfsLoop returning an empty path where the code raises JoinError
RECURSIVE BfsLoopNoRaise(_, _, _)
BfsLoopNoRaise(graph, st, end) ==
    IF st.found # <<>> THEN [raised |-> FALSE, path |-> st.found]
    ELSE IF st.queue = <<>> THEN [raised |-> FALSE, path |-> <<>>]
    ELSE BfsLoopNoRaise(graph, BfsStep(graph, st, end), end)

\* the while loop: return path (line 163) or raise JoinError (line 168)
RECURSIVE BfsLoop(_, _, _)
BfsLoop(graph, st, end) ==
    IF st.found # <<>> THEN [raised |-> FALSE, path |-> st.found]
    ELSE IF st.queue = <<>> THEN [raised |-> TRUE, path |-> <<>>]
    ELSE CHOOSE r \in {BfsLoop(graph, next, end) : next \in {BfsStep(graph, st, end)}} : TRUE

\* the path from start to end, or raised where the code raises JoinError
find_join_path(graph, start, end) ==
    BfsLoop(graph, [queue |-> <<[node |-> start, path |-> <<start>>]>>,
                    visited |-> {}, found |-> <<>>], end)

(***************************************************************************)
(* query.py: SQL expressions.  An expression is the tree sqlalchemy builds;*)
(* Sem gives its value on a row in SQL's three-valued logic ("T", "F" and  *)
(* "N" for NULL).  A cell is <<>> for NULL or <<v>> for the value v.       *)
(***************************************************************************)
comparison_operators == {"eq", "ne", "lt", "le", "gt", "ge"}

text_operators == {"startswith", "endswith", "contains"}

\* operator(column, value) and getattr(column, operator)(value)
Compare(operator, column, value) == [kind |-> operator, column |-> column, value |-> value]

\* sqlalchemy.tuple_(*columns).in_(values)
TupleIn(cols, values) == [kind |-> "tuple_in", columns |-> cols, values |-> values]

\* column.isnot(None)
IsNotNull(column) == [kind |-> "isnot_null", column |-> column]

\* sqlalchemy.and_(*clauses): a single clause stays as it is
and_(clauses) ==
    IF Len(clauses) = 1 THEN clauses[1] ELSE [kind |-> "and", clauses |-> clauses]

\* sqlalchemy.or_(*clauses)
or_(clauses) ==
    IF Len(clauses) = 1 THEN clauses[1] ELSE [kind |-> "or", clauses |-> clauses]

\* sqlalchemy.not_(clause)
not_(clause) == [kind |-> "not", clause |-> clause]

Bool3(b) == IF b THEN "T" ELSE "F"

Not3(a) == CASE a = "T" -> "F" [] a = "F" -> "T" [] OTHER -> "N"

\* AND and OR over a list of truth values; an empty list renders no condition
And3(vs) ==
    IF \E k \in DOMAIN vs : vs[k] = "F" THEN "F"
    ELSE IF \E k \in DOMAIN vs : vs[k] = "N" THEN "N" ELSE "T"

Or3(vs) ==
    IF vs = <<>> THEN "T"
    ELSE IF \E k \in DOMAIN vs : vs[k] = "T" THEN "T"
    ELSE IF \E k \in DOMAIN vs : vs[k] = "N" THEN "N" ELSE "F"

\* a comparison of a cell with a literal; NULL compares to NULL
CompareCell(operator, cell, value) ==
    IF cell = <<>> THEN "N"
    ELSE CASE operator = "eq" -> Bool3(cell[1] = value)
           [] operator = "ne" -> Bool3(cell[1] # value)
           [] operator = "lt" -> Bool3(cell[1] < value)
           [] operator = "le" -> Bool3(cell[1] <= value)
           [] operator = "gt" -> Bool3(cell[1] > value)
           [] operator = "ge" -> Bool3(cell[1] >= value)

\* the value of an expression on a row (row: column -> cell)
RECURSIVE Sem(_, _)
Sem(expr, row) ==
    CASE expr.kind \in comparison_operators ->
            CompareCell(expr.kind, row[expr.column], expr.value)
      [] expr.kind = "isnot_null" -> Bool3(row[expr.column] # <<>>)
      [] expr.kind = "and" -> And3([k \in DOMAIN expr.clauses |-> Sem(expr.clauses[k], row)])
      [] expr.kind = "or" -> Or3([k \in DOMAIN expr.clauses |-> Sem(expr.clauses[k], row)])
      [] expr.kind = "not" -> Not3(Sem(expr.clause, row))
      [] expr.kind = "tuple_in" ->
            IF expr.values = {} THEN "F"
            ELSE Or3([k \in 1..Cardinality(expr.values) |->
                        LET v == SetToSeq(expr.values)[k]
                        IN And3([m \in DOMAIN expr.columns |->
                                    CompareCell("eq", row[expr.columns[m]], v[m])])])

(***************************************************************************)
(* query.py: Query.from_dict, EqualityQuery, ParentQuery                   *)
(***************************************************************************)
\* left_operator (lines 41-51)
left_operator ==
    [o \in {"eq", "ne", "lt", "le", "gt", "ge", "starts with", "ends with", "contains"} |->
        CASE o = "lt" -> "gt"
          [] o = "le" -> "ge"
          [] o = "gt" -> "lt"
          [] o = "ge" -> "le"
          [] OTHER -> o]

\* an exception raised inside the try block of Query.from_dict (lines 102-145)
QueryError == [class |-> "QueryError"]

\* the try block ended without a return (neither type matched)
FallThrough == [class |-> "fallthrough"]

\* no query dict
NoDict == [type |-> "none"]

\* QueryError("Failed to parse query") without the query dict
FailedToParseBare(query_dict) ==
    [class |-> "QueryError", message |-> "Failed to parse query", carried |-> NoDict]

\* raise QueryError(f"Failed to parse query: {query_dict}") (lines 146-147)
FailedToParse(query_dict) ==
    [class |-> "QueryError", message |-> "Failed to parse query", carried |-> query_dict]

\* raise QueryError("Unrecognized query type") (line 149)
Unrecognized ==
    [class |-> "QueryError", message |-> "Unrecognized query type", carried |-> NoDict]

HasKeys(d, keys) == keys \subseteq DOMAIN d

\* EqualityQuery.from_dict (lines 189-195); a missing key raises KeyError,
\* which Query.from_dict turns into QueryError
EqualityQuery_from_dict(d) ==
    IF ~HasKeys(d.column, {"schema", "name"})
    THEN QueryError
    ELSE [class |-> "EqualityQuery",
          column |-> <<d.column.schema, d.column.name>>,
          operator |-> d.operator,
          value |-> d.value]

\* the two children of the range sugar (lines 122-135)
LeftOnly(d) ==
    [type |-> "EqualityQuery", field |-> d.field,
     leftOperator |-> d.leftOperator, leftValue |-> d.leftValue]

RightOnly(d) ==
    [type |-> "EqualityQuery", field |-> d.field,
     rightOperator |-> d.rightOperator, rightValue |-> d.rightValue]

\* the range sugar joined by OR
SugarOperatorOr == "OR"

\* the operator of the range sugar (line 136)
SugarOperator == "AND"

RECURSIVE Query_from_dict(_)
RECURSIVE ParentQuery_from_dict(_)
RECURSIVE TryBlock(_)

\* ParentQuery.from_dict (lines 239-244); a child that raises ends the call
ParentQuery_from_dict(d) ==
    LET children == [k \in DOMAIN d.children |-> Query_from_dict(d.children[k])]
    IN IF \E k \in DOMAIN children : children[k].class = "QueryError"
       THEN QueryError
       ELSE [class |-> "ParentQuery", children |-> children, operator |-> d.operator]

\* the try block of Query.from_dict (lines 102-145): the Query returned, the
\* exception raised by a lookup or by a nested from_dict, or neither
TryBlock(query_dict) ==
    IF ~HasKeys(query_dict, {"type"}) THEN QueryError
    ELSE IF query_dict.type = "EqualityQuery"
    THEN IF ~HasKeys(query_dict, {"leftOperator"})
         THEN IF HasKeys(query_dict, {"field", "rightOperator", "rightValue"})
              THEN EqualityQuery_from_dict(
                       [column |-> query_dict.field,
                        operator |-> query_dict.rightOperator,
                        value |-> query_dict.rightValue])
              ELSE QueryError
         ELSE IF ~HasKeys(query_dict, {"rightOperator"})
         THEN IF /\ HasKeys(query_dict, {"field", "leftValue"})
                 /\ query_dict.leftOperator \in DOMAIN left_operator
              THEN EqualityQuery_from_dict(
                       [column |-> query_dict.field,
                        operator |-> left_operator[query_dict.leftOperator],
                        value |-> query_dict.leftValue])
              ELSE QueryError
         ELSE IF HasKeys(query_dict, {"field", "leftValue", "rightValue"})
              THEN ParentQuery_from_dict(
                       [children |-> <<LeftOnly(query_dict), RightOnly(query_dict)>>,
                        operator |-> SugarOperator])
              ELSE QueryError
    ELSE IF query_dict.type = "ParentQuery"
    THEN IF HasKeys(query_dict, {"children", "operator"})
         THEN ParentQuery_from_dict(
                  [children |-> query_dict.children, operator |-> query_dict.operator])
         ELSE QueryError
    ELSE FallThrough

\* Query.from_dict (lines 90-149): every exception of the try block, a
\* QueryError of a nested from_dict included, is replaced by a QueryError
\* carrying the dict of this call
Query_from_dict(query_dict) ==
    LET built == TryBlock(query_dict)
    IN IF built.class = "QueryError" THEN FailedToParse(query_dict)
       ELSE IF built.class = "fallthrough" THEN Unrecognized
       ELSE built

\* no Query, no QueryResult, no clause, no data ids
NoQuery == [class |-> "none"]

NoClause == [kind |-> "none"]

NoResult == [error |-> "unset", result |-> NoClause, tables |-> {}]

NoDataIds == [given |-> FALSE, ids |-> {}]

\* a QueryResult, and a call that raised
QueryResult(clause, tabs) == [error |-> "none", result |-> clause, tables |-> tabs]

Raised(error) == [error |-> error, result |-> NoClause, tables |-> {}]

\* ConsDbSchema.get_column (lines 370-384) finds the column
HasColumn(tabs, column) ==
    column[1] \in DOMAIN tabs /\ column[2] \in tabs[column[1]]

\* EqualityQuery.__call__ (lines 175-187)
EqualityQuery_call(q, tabs) ==
    IF ~HasColumn(tabs, q.column) THEN Raised("KeyError")
    ELSE IF q.operator \in comparison_operators \cup text_operators
    THEN QueryResult(Compare(q.operator, q.column, q.value), {q.column[1]})
    ELSE Raised("QueryError")

\* case "NOT" (line 228) as the negation of the conjunction of the children
NotClauseOfConjunction(child_results) ==
    QueryResult(not_(and_(child_results)), {})

\* case "NOT" (line 228): sqlalchemy.not_ takes exactly one clause
NotClause(child_results) ==
    IF Len(child_results) = 1
    THEN QueryResult(not_(child_results[1]), {})
    ELSE Raised("QueryError")

\* XOR as the parity of the children, folded pairwise
RECURSIVE XorParity(_)
XorParity(child_results) ==
    IF Len(child_results) <= 1 THEN or_(child_results)
    ELSE LET a == XorParity(SubSeq(child_results, 1, Len(child_results) - 1))
             b == child_results[Len(child_results)]
         IN and_(<<or_(<<a, b>>), not_(and_(<<a, b>>))>>)

\* case "XOR" (lines 229-233)
XorClause(child_results) ==
    and_(<<or_(child_results), not_(and_(child_results))>>)

\* every child result is an sqlalchemy clause; and_, or_ and not_ raise
\* ArgumentError on any other object, which lines 234-235 turn into QueryError
AllClauses(child_results) ==
    \A k \in DOMAIN child_results : child_results[k].kind # "QueryResult"

\* the match statement of ParentQuery.__call__ (lines 221-237); with an
\* operator that no case matches, result is still the QueryResult of the last
\* child, or unbound when there is no child
Combine(operator, child_results, last) ==
    CASE operator \in {"AND", "OR", "NOT", "XOR"} /\ ~AllClauses(child_results) ->
             Raised("QueryError")
      [] operator = "AND" -> QueryResult(and_(child_results), {})
      [] operator = "OR" -> QueryResult(or_(child_results), {})
      [] operator = "NOT" -> NotClause(child_results)
      [] operator = "XOR" -> QueryResult(XorClause(child_results), {})
      [] OTHER -> IF child_results = <<>>
                  THEN Raised("UnboundLocalError")
                  ELSE QueryResult([kind |-> "QueryResult", value |-> last], {})

\* tables as the tables of the last child only
TouchedTablesOfLast(results) ==
    IF results = <<>> THEN {} ELSE results[Len(results)].tables

\* tables.update(result.tables) over the children (lines 215-219)
TouchedTables(results) ==
    UNION {results[k].tables : k \in DOMAIN results}

RECURSIVE Query_call(_, _)

\* ParentQuery.__call__ (lines 213-237)
ParentQuery_call(q, tabs) ==
    LET results == [k \in DOMAIN q.children |-> Query_call(q.children[k], tabs)]
        failed == {k \in DOMAIN results : results[k].error # "none"}
        child_results == [k \in DOMAIN results |-> results[k].result]
        touched == TouchedTables(results)
    IN IF failed # {}
       THEN Raised(results[CHOOSE k \in failed : \A m \in failed : k <= m].error)
       ELSE LET combined == Combine(q.operator, child_results,
                                    IF results = <<>> THEN <<>> ELSE results[Len(results)])
            IN IF combined.error # "none" THEN combined
               ELSE QueryResult(combined.result, touched)

\* query(database)
Query_call(q, tabs) ==
    IF q.class = "EqualityQuery" THEN EqualityQuery_call(q, tabs)
    ELSE ParentQuery_call(q, tabs)

(***************************************************************************)
(* JoinBuilder.build_join, one action per loop iteration                   *)
(***************************************************************************)
\* the tables a build_join request may name
RequestSets ==
    {T \in SUBSET (DOMAIN LiveTables) : T # {} /\ Cardinality(T) <= MaxRequest}

\* the tables of a join
JoinTables(sf) == {sf[k].table : k \in DOMAIN sf}

\* the conditions of a join as a set of unordered pairs of columns
Conditions(sf) ==
    {{<<c[1], c[2]>>, <<c[3], c[4]>>} : c \in UNION {Range(sf[k].on) : k \in DOMAIN sf}}

NoPrev == [outcome |-> "none", tables |-> {}, conditions |-> {}]

\* StartJoin with joined_tables = set(tables) for set([tables[0]])
StartJoinAllJoined(order) ==
    /\ tables_list' = order
    /\ select_from' = <<[table |-> order[1], on |-> <<>>]>>
    /\ joined_tables' = Range(order)
    /\ i' = 2
    /\ j' = 0
    /\ join_path' = <<>>
    /\ outcome' = "none"
    /\ find_calls' = 0
    /\ pc' = "for_i"

\* lines 183-188: tables = list(table_names), the first table starts the join
StartJoin(order) ==
    /\ tables_list' = order
    /\ select_from' = <<[table |-> order[1], on |-> <<>>]>>
    /\ joined_tables' = {order[1]}
    /\ i' = 2
    /\ j' = 0
    /\ join_path' = <<>>
    /\ outcome' = "none"
    /\ find_calls' = 0
    /\ pc' = "for_i"

build_join ==
    /\ pc = "idle"
    /\ \E T \in RequestSets : \E order \in Orderings(T) : StartJoin(order)
    /\ prev' = NoPrev
    /\ UNCHANGED <<joinVars, commandVars, callVars>>

\* lines 190-199: the next requested table, and the path to it from tables[0]
NextTable ==
    /\ pc = "for_i"
    /\ i <= Len(tables_list)
    /\ LET current_table == tables_list[i]
           found == find_join_path(join_graph, tables_list[1], current_table)
       IN IF current_table \in joined_tables
          THEN /\ i' = i + 1
               /\ UNCHANGED <<pc, join_path, j, outcome, find_calls>>
          ELSE /\ find_calls' = find_calls + 1
               /\ IF found.raised
                  THEN /\ outcome' = "JoinError"
                       /\ pc' = "done"
                       /\ UNCHANGED <<i, join_path, j>>
                  ELSE /\ join_path' = found.path
                       /\ j' = 2
                       /\ pc' = "for_j"
                       /\ UNCHANGED <<i, outcome>>
    /\ UNCHANGED <<tables_list, joined_tables, select_from, prev>>
    /\ UNCHANGED <<joinVars, commandVars, callVars>>

\* line 213: the first column of the pair list that a table does not have
MissingColumn(tabs, t1, t2, pairs) ==
    \E k \in DOMAIN pairs : pairs[k][1] \notin tabs[t1] \/ pairs[k][2] \notin tabs[t2]

\* lines 209-214: the conditions t1.col1 == t2.col2 of one edge
JoinConditions(t1, t2, pairs) ==
    [k \in DOMAIN pairs |-> <<t1, pairs[k][1], t2, pairs[k][2]>>]

\* line 225: sqlalchemy.join(select_from, self.tables[t2], *join_conditions).
\* join(left, right, onclause=None, isouter=False, full=False) takes the first
\* condition as its ON clause; a second and a third condition arrive as the
\* flags isouter and full, and the truth value of a comparison of two
\* different columns is False, so the join stays an inner join on the first
\* condition alone
OnClause(conditions) == SubSeq(conditions, 1, 1)

\* the positional arguments join() accepts after left and right
MaxJoinArguments == 3

\* lines 201-226: one table of the path
JoinStep ==
    /\ pc = "for_j"
    /\ j <= Len(join_path)
    /\ LET t1 == join_path[j - 1]
           t2 == join_path[j]
           pairs == DictGet(join_graph[t1], t2)
       IN IF t2 \in joined_tables
          THEN /\ j' = j + 1
               /\ UNCHANGED <<pc, joined_tables, select_from, outcome>>
          ELSE IF MissingColumn(tables, t1, t2, pairs)
               THEN /\ outcome' = "KeyError"
                    /\ pc' = "done"
                    /\ UNCHANGED <<j, joined_tables, select_from>>
               ELSE IF pairs = <<>>
                    THEN /\ outcome' = "ValueError"
                         /\ pc' = "done"
                         /\ UNCHANGED <<j, joined_tables, select_from>>
                    ELSE IF Len(pairs) > MaxJoinArguments
                    THEN /\ outcome' = "TypeError"
                         /\ pc' = "done"
                         /\ UNCHANGED <<j, joined_tables, select_from>>
                    ELSE /\ select_from' = Append(select_from,
                                [table |-> t2,
                                 on |-> OnClause(JoinConditions(t1, t2, pairs))])
                         /\ joined_tables' = joined_tables \cup {t2}
                         /\ j' = j + 1
                         /\ UNCHANGED <<pc, outcome>>
    /\ UNCHANGED <<tables_list, i, join_path, prev, find_calls>>
    /\ UNCHANGED <<joinVars, commandVars, callVars>>

\* line 201: the path is exhausted, back to the outer loop
PathDone ==
    /\ pc = "for_j"
    /\ j > Len(join_path)
    /\ i' = i + 1
    /\ pc' = "for_i"
    /\ UNCHANGED <<tables_list, join_path, j, joined_tables, select_from, outcome, prev,
                   find_calls>>
    /\ UNCHANGED <<joinVars, commandVars, callVars>>

\* line 228: return select_from
Return ==
    /\ pc = "for_i"
    /\ i > Len(tables_list)
    /\ outcome' = "join"
    /\ pc' = "done"
    /\ UNCHANGED <<tables_list, i, join_path, j, joined_tables, select_from, prev,
                   find_calls>>
    /\ UNCHANGED <<joinVars, commandVars, callVars>>

\* a caller that got a join resolves the same set of tables again; list() of
\* the set may give any order
build_join_again ==
    /\ pc = "done"
    /\ outcome = "join"
    /\ prev = NoPrev
    /\ prev' = [outcome |-> outcome, tables |-> JoinTables(select_from),
                conditions |-> Conditions(select_from)]
    /\ \E order \in Orderings(Range(tables_list)) : StartJoin(order)
    /\ UNCHANGED <<joinVars, commandVars, callVars>>

\* the caller is done with the result
Finish ==
    /\ pc = "done"
    /\ pc' = "idle"
    /\ tables_list' = <<>>
    /\ i' = 0
    /\ j' = 0
    /\ join_path' = <<>>
    /\ joined_tables' = {}
    /\ select_from' = <<>>
    /\ outcome' = "none"
    /\ prev' = NoPrev
    /\ find_calls' = 0
    /\ UNCHANGED <<joinVars, commandVars, callVars>>

\* no call is running
\* no column looked up, no command, no contents, no response
NoColumn == [error |-> "unset", column |-> <<>>]

NoCommand == [name |-> "none"]

NoContents == [error |-> "unset"]

NoResponse == [type |-> "none"]

\* the name of the schema the tables are reflected from (schema["name"])
SchemaName == "cdb"

\* the key of a table in a MetaData: the schema and the name, or the name
\* alone for a table given no schema
SchemaKey(name) == <<SchemaName, name>>

BareKey(name) == <<name>>

\* ConsDbSchema.__init__ (lines 280-311): every loaded table is reflected
\* into self.metadata with schema=schema["name"]
StartMetadata(tabs) == {SchemaKey(t) : t \in DOMAIN tabs}

\* no call is running: nothing checked out, the metadata as __init__ left it
NoEngineCall ==
    /\ connections = 0
    /\ metadata = StartMetadata(LiveTables)
    /\ bounds = <<>>

\* sanitize_path has not been called
NotSanitized == [error |-> "unset", path |-> <<>>]

\* the mock server has just started: empty class attributes (lines 51-53)
NoSockets ==
    /\ clients = {}
    /\ workers = <<>>
    /\ queue = <<>>
    /\ inbox = [w \in 1..MaxWorkers |-> <<>>]
    /\ delivered = {}
    /\ posted = [c \in 1..MaxClients |-> 0]
    /\ dispatched = {}
    /\ used = {}

NoCall ==
    /\ pc = "idle"
    /\ tables_list = <<>>
    /\ i = 0
    /\ j = 0
    /\ join_path = <<>>
    /\ joined_tables = {}
    /\ select_from = <<>>
    /\ outcome = "none"
    /\ prev = NoPrev
    /\ find_calls = 0
    /\ wire = NoDict
    /\ query = NoQuery
    /\ query_result = NoResult
    /\ columns = <<>>
    /\ data_ids = NoDataIds
    /\ table_columns = {}
    /\ table_names = {}
    /\ data_id_columns = <<>>
    /\ query_model = NoClause
    /\ result = {}
    /\ reference = <<>>
    /\ looked_up = NoColumn
    /\ command = NoCommand
    /\ contents = NoContents
    /\ response = NoResponse
    /\ NoEngineCall
    /\ NoSockets
    /\ base_path = <<>>
    /\ user_path = <<>>
    /\ sanitized = NotSanitized

Init ==
    /\ tables = LiveTables
    /\ joins \in JoinLists
    /\ join_graph = build_join_graph(tables, joins)
    /\ stored = <<>>
    /\ NoCall

Next ==
    \/ build_join
    \/ NextTable
    \/ JoinStep
    \/ PathDone
    \/ Return
    \/ build_join_again
    \/ Finish

Spec == Init /\ [][Next]_vars

(***************************************************************************)
(* SpecJoin: build_join over join templates that pair several columns, on  *)
(* graphs with cycles and with tables that nothing connects.  A call that  *)
(* has started keeps running: nothing in build_join waits.                 *)
(***************************************************************************)
PairTemplates ==
    { Template("exposure", <<"exposure_id", "day_obs">>, "visit1", <<"visit_id", "day_obs">>),
      Template("visit1", <<"visit_id">>, "visit1_quicklook", <<"visit_id">>),
      Template("visit1_quicklook", <<"visit_id">>, "exposure", <<"exposure_id">>),
      Template("visit1", <<"visit_id">>, "ccdvisit1", <<"visit_id">>),
      Template("visit1", <<"visit_id", "day_obs", "seq_num", "visit_id">>,
               "exposure", <<"exposure_id", "day_obs", "seq_num", "exposure_id">>) }

PairJoinLists ==
    UNION {{s \in [1..n -> PairTemplates] : NoDup(s)} : n \in 0..MaxJoins}

InitJoin ==
    /\ tables = LiveTables
    /\ joins \in PairJoinLists
    /\ join_graph = build_join_graph(tables, joins)
    /\ stored = <<>>
    /\ NoCall

\* the statements of a running build_join are executed one after the other
Running ==
    \/ NextTable
    \/ JoinStep
    \/ PathDone
    \/ Return

SpecJoin == InitJoin /\ [][Next]_vars /\ WF_vars(Running)

(***************************************************************************)
(* SpecTree: a query dict arrives, Query.from_dict builds the Query and    *)
(* the Query is called on the database (commands/db.py, lines 96-100).     *)
(***************************************************************************)
WireFields ==
    { [schema |-> "exposure", name |-> "ra"],
      [schema |-> "exposure", name |-> "dec"],
      [schema |-> "visit1_quicklook", name |-> "exp_time"],
      [schema |-> "exposure", name |-> "airmass"],       \* not a column of the table
      [name |-> "ra"],                                   \* no schema
      [text |-> "exposure.ra"] }                         \* a str, not a dict

WireOperators == comparison_operators \cup text_operators \cup {"starts with", "between"}

WireValues == {0}

WireOperatorsOfParent == {"AND", "OR", "NOT", "XOR", "NAND"}

BareNode(f) == [type |-> "EqualityQuery", field |-> f]

RightNode(f, o, v) ==
    [type |-> "EqualityQuery", field |-> f, rightOperator |-> o, rightValue |-> v]

LeftNode(f, o, v) ==
    [type |-> "EqualityQuery", field |-> f, leftOperator |-> o, leftValue |-> v]

BothNode(f, lo, lv, ro, rv) ==
    [type |-> "EqualityQuery", field |-> f, leftOperator |-> lo, leftValue |-> lv,
     rightOperator |-> ro, rightValue |-> rv]

ParentNode(o, c) == [type |-> "ParentQuery", operator |-> o, children |-> c]

\* the comparison nodes a request may carry, well formed or not
WireLeaves ==
    {BareNode(f) : f \in WireFields}
    \cup {RightNode(f, o, v) : f \in WireFields, o \in WireOperators, v \in WireValues}
    \cup {LeftNode(f, o, v) : f \in WireFields, o \in WireOperators, v \in WireValues}
    \cup {BothNode(f, lo, lv, ro, rv) : f \in WireFields, lo \in WireOperators,
              lv \in WireValues, ro \in WireOperators, rv \in WireValues}
    \cup { [field |-> [schema |-> "exposure", name |-> "ra"],
            rightOperator |-> "eq", rightValue |-> 0],
           [type |-> "RangeQuery", field |-> [schema |-> "exposure", name |-> "ra"],
            rightOperator |-> "eq", rightValue |-> 0],
           [type |-> "EqualityQuery", field |-> [schema |-> "exposure", name |-> "ra"],
            rightOperator |-> "eq"],
           [type |-> "ParentQuery", operator |-> "AND"] }

\* the nodes the children of a ParentQuery are drawn from
WireChildren ==
    { RightNode([schema |-> "exposure", name |-> "ra"], "gt", 0),
      LeftNode([schema |-> "exposure", name |-> "dec"], "lt", 0),
      RightNode([schema |-> "visit1_quicklook", name |-> "exp_time"], "eq", 0),
      RightNode([schema |-> "exposure", name |-> "airmass"], "eq", 0),
      BareNode([schema |-> "exposure", name |-> "ra"]),
      ParentNode("NOT", <<RightNode([schema |-> "exposure", name |-> "ra"], "gt", 0)>>),
      ParentNode("OR", <<LeftNode([schema |-> "exposure", name |-> "dec"], "lt", 0),
                         RightNode([schema |-> "visit1_quicklook", name |-> "exp_time"],
                                   "eq", 0)>>),
      ParentNode("NAND", <<RightNode([schema |-> "exposure", name |-> "ra"], "gt", 0)>>),
      ParentNode("AND", <<[type |-> "RangeQuery",
                           field |-> [schema |-> "exposure", name |-> "ra"],
                           rightOperator |-> "eq", rightValue |-> 0]>>) }

WireParents ==
    {ParentNode(o, c) : o \in WireOperatorsOfParent,
                        c \in UNION {[1..n -> WireChildren] : n \in 0..MaxChildren}}

WireQueries == WireLeaves \cup WireParents

\* query = Query.from_dict(self.query)
from_dict ==
    /\ pc = "idle"
    /\ \E d \in WireQueries :
          /\ wire' = d
          /\ query' = Query_from_dict(d)
          /\ pc' = IF Query_from_dict(d).class = "QueryError" THEN "rejected" ELSE "parsed"
    /\ UNCHANGED <<joinVars, commandVars, query_result, requestVars>>
    /\ UNCHANGED <<tables_list, i, join_path, j, joined_tables, select_from, outcome, prev,
                   find_calls>>

\* query_result = query(self)
call ==
    /\ pc = "parsed"
    /\ query_result' = Query_call(query, tables)
    /\ pc' = "evaluated"
    /\ UNCHANGED <<joinVars, commandVars, wire, query, requestVars>>
    /\ UNCHANGED <<tables_list, i, join_path, j, joined_tables, select_from, outcome, prev,
                   find_calls>>

\* the request is answered, with the error or with the result
reply ==
    /\ pc \in {"rejected", "evaluated"}
    /\ pc' = "idle"
    /\ wire' = NoDict
    /\ query' = NoQuery
    /\ query_result' = NoResult
    /\ UNCHANGED <<joinVars, commandVars, requestVars>>
    /\ UNCHANGED <<tables_list, i, join_path, j, joined_tables, select_from, outcome, prev,
                   find_calls>>

InitTree ==
    /\ tables = LiveTables
    /\ joins = <<>>
    /\ join_graph = build_join_graph(tables, joins)
    /\ stored = <<>>
    /\ NoCall

NextTree ==
    \/ from_dict
    \/ call
    \/ reply

SpecTree == InitTree /\ [][NextTree]_vars

(***************************************************************************)
(* SpecQuery: ConsDbSchema.query.  The rows of the database are a fixture; *)
(* a cell is <<>> for NULL.                                                *)
(***************************************************************************)
ExposureRow(id, seq, ra, dec) ==
    [exposure_id |-> <<id>>, day_obs |-> <<1>>, seq_num |-> <<seq>>, ra |-> ra, dec |-> dec]

TableRows ==
    [t \in DOMAIN LiveTables |->
        CASE t = "exposure" ->
                { ExposureRow(1, 1, <<1>>, <<1>>),
                  ExposureRow(2, 2, <<>>, <<1>>),
                  ExposureRow(3, 3, <<-1>>, <<-1>>) }
          [] t = "visit1" ->
                { [visit_id |-> <<1>>, day_obs |-> <<1>>, seq_num |-> <<1>>],
                  [visit_id |-> <<2>>, day_obs |-> <<1>>, seq_num |-> <<2>>],
                  [visit_id |-> <<4>>, day_obs |-> <<1>>, seq_num |-> <<4>>] }
          [] t = "visit1_quicklook" ->
                { [visit_id |-> <<1>>, exp_time |-> <<0>>],
                  [visit_id |-> <<2>>, exp_time |-> <<1>>],
                  [visit_id |-> <<>>, exp_time |-> <<1>>] }
          [] t = "ccdvisit1" ->
                { [ccdvisit_id |-> <<1>>, visit_id |-> <<1>>],
                  [ccdvisit_id |-> <<2>>, visit_id |-> <<1>>],
                  [ccdvisit_id |-> <<3>>, visit_id |-> <<2>>] }]

\* the join configurations: the chain exposure - visit1 - visit1_quicklook
\* and one more template
CoreJoins ==
    << Template("exposure", <<"exposure_id">>, "visit1", <<"visit_id">>),
       Template("visit1", <<"visit_id">>, "visit1_quicklook", <<"visit_id">>) >>

QueryJoinLists == {CoreJoins \o <<t>> : t \in JoinTemplates \ Range(CoreJoins)}

\* a column name is kept as its parts between the dots: column.split(".")
RequestColumns ==
    { <<"exposure", "ra">>, <<"visit1", "visit_id">>, <<"visit1_quicklook", "exp_time">>,
      <<"ccdvisit1", "visit_id">>, <<"exposure", "airmass">>, <<"ra">> }

ColumnRequests == UNION {[1..n -> RequestColumns] : n \in 0..MaxColumns}

QueryRequests ==
    { NoQuery,
      Query_from_dict(RightNode([schema |-> "exposure", name |-> "dec"], "gt", 0)),
      Query_from_dict(RightNode([schema |-> "visit1_quicklook", name |-> "exp_time"], "ge", 0)),
      Query_from_dict(RightNode([schema |-> "exposure", name |-> "ra"], "between", 0)),
      Query_from_dict(RightNode([schema |-> "exposure", name |-> "dec"], "ne", 0)),
      Query_from_dict(ParentNode("NOT",
          <<RightNode([schema |-> "exposure", name |-> "dec"], "lt", 0)>>)),
      Query_from_dict(ParentNode("OR",
          <<RightNode([schema |-> "exposure", name |-> "ra"], "gt", 0),
            RightNode([schema |-> "exposure", name |-> "dec"], "gt", 0)>>)),
      Query_from_dict(ParentNode("XOR",
          <<RightNode([schema |-> "exposure", name |-> "dec"], "gt", 0),
            RightNode([schema |-> "exposure", name |-> "dec"], "lt", 0)>>)) }

DataIdRequests == {NoDataIds, [given |-> TRUE, ids |-> {<<1, 1>>, <<1, 3>>}]}

\* lines 422-424: what looking up one requested column raises
ColumnError(tabs, column) ==
    IF Len(column) # 2 THEN "ValueError"
    ELSE IF ~HasColumn(tabs, column) THEN "KeyError"
    ELSE "none"

\* every column labelled by its column name alone
LabelBare(column, label) == [column |-> column, label |-> <<column[Len(column)]>>]

\* column_obj.label(...)
Label(column, label) == [column |-> column, label |-> label]

\* the data ids always taken from exposure
IdTableExposure(first) == "exposure"

\* lines 437-444: the table whose day_obs and seq_num are added
IdTable(first) == IF first \in Range(visit1_tables) THEN "visit1" ELSE "exposure"

\* the index columns a schema declares for each table (line 352)
index_columns ==
    [t \in DOMAIN LiveTables |->
        CASE t \in {"exposure", "visit1"} -> {"day_obs", "seq_num"}
          [] t = "visit1_quicklook" -> {"visit_id"}
          [] t = "ccdvisit1" -> {"ccdvisit_id"}]

\* the table of the data ids is not added to the tables to join
TablesOfColumns(names, id_table) == names

\* lines 439 and 442: table_names.add("visit1"), table_names.add("exposure")
TablesWithIds(names, id_table) == names \cup {id_table}

\* ConsDbSchema.get_column_models (lines 403-446); first is list(table_names)[0]
get_column_models(tabs, cols, first) ==
    LET failed == {k \in DOMAIN cols : ColumnError(tabs, cols[k]) # "none"}
        names == {cols[k][1] : k \in DOMAIN cols}
        requested == {Label(cols[k], cols[k]) : k \in DOMAIN cols}
        id_table == IdTable(first)
        ids == << <<id_table, "day_obs">>, <<id_table, "seq_num">> >>
        fail(error) == [error |-> error, table_columns |-> {}, table_names |-> {},
                        data_id_columns |-> <<>>]
    IN IF failed # {}
       THEN fail(ColumnError(tabs, cols[CHOOSE k \in failed : \A m \in failed : k <= m]))
       ELSE IF first \notin Range(visit1_tables) \cup Range(exposure_tables)
       THEN fail("ValueError")
       ELSE IF ~HasColumn(tabs, ids[1]) \/ ~HasColumn(tabs, ids[2])
       THEN fail("KeyError")
       ELSE [error |-> "none",
             table_columns |-> requested \cup {Label(ids[1], <<"day_obs">>),
                                               Label(ids[2], <<"seq_num">>)},
             table_names |-> TablesWithIds(names, id_table),
             data_id_columns |-> ids]

\* line 479: the non-null guards
Guards(tcs) == and_([k \in 1..Cardinality(tcs) |-> IsNotNull(SetToSeq(tcs)[k].column)])

\* the WHERE clause with the predicate in place of the guards
WhereClauseUnguarded(tcs, qr, ids, id_columns) ==
    LET guarded == IF qr.error = "none" THEN qr.result ELSE Guards(tcs)
    IN IF ids.given THEN and_(<<guarded, TupleIn(id_columns, ids.ids)>>) ELSE guarded

\* lines 480-482 and 484-486: the WHERE clause
WhereClause(tcs, qr, ids, id_columns) ==
    LET guarded == IF qr.error = "none" THEN and_(<<Guards(tcs), qr.result>>) ELSE Guards(tcs)
    IN IF ids.given THEN and_(<<guarded, TupleIn(id_columns, ids.ids)>>) ELSE guarded

\* line 483 left out: the tables of the predicate are not added
JoinSetColumnsOnly(names, qr) == names

\* line 483: table_names.update(query_result.tables)
JoinSet(names, qr) == names \cup qr.tables

\* query() raises before the join is built
QueryRaises(error) ==
    /\ outcome' = error
    /\ pc' = "done"
    /\ UNCHANGED <<tables_list, i, join_path, j, joined_tables, select_from, find_calls>>

\* ConsDbSchema.query, lines 473-489: the column models, the WHERE clause and
\* the call of build_join
ConsDbSchema_query ==
    /\ pc = "idle"
    /\ \E cols \in ColumnRequests, q \in QueryRequests, ids \in DataIdRequests :
          /\ columns' = cols
          /\ query' = q
          /\ data_ids' = ids
          /\ IF cols = <<>>
             THEN /\ QueryRaises("IndexError")
                  /\ UNCHANGED <<table_columns, table_names, data_id_columns, query_model,
                                 query_result>>
             ELSE \E first \in {cols[k][1] : k \in DOMAIN cols} :
                    LET models == get_column_models(tables, cols, first)
                        qr == IF q = NoQuery THEN NoResult ELSE Query_call(q, tables)
                    IN IF models.error # "none"
                       THEN /\ QueryRaises(models.error)
                            /\ UNCHANGED <<table_columns, table_names, data_id_columns,
                                           query_model, query_result>>
                       ELSE /\ table_columns' = models.table_columns
                            /\ data_id_columns' = models.data_id_columns
                            /\ query_result' = qr
                            /\ IF q # NoQuery /\ qr.error # "none"
                               THEN /\ QueryRaises(qr.error)
                                    /\ table_names' = models.table_names
                                    /\ query_model' = Guards(models.table_columns)
                               ELSE /\ table_names' = JoinSet(models.table_names, qr)
                                    /\ query_model' = WhereClause(models.table_columns, qr, ids,
                                                                  models.data_id_columns)
                                    /\ \E order \in Orderings(JoinSet(models.table_names, qr)) :
                                          StartJoin(order)
    /\ UNCHANGED <<joinVars, commandVars, wire, prev, result>>

\* the rows of a join extended by one more table
ExtendJoin(combos, entry) ==
    {(entry.table :> r) @@ c : c \in combos, r \in TableRows[entry.table]} \cap
    {f \in {(entry.table :> r) @@ c : c \in combos, r \in TableRows[entry.table]} :
        \A k \in DOMAIN entry.on :
            LET cond == entry.on[k]
                a == f[cond[1]][cond[2]]
                b == f[cond[3]][cond[4]]
            IN a # <<>> /\ a = b}

\* the rows of the chain of joins sf[1] JOIN sf[2] ON ... JOIN sf[k] ON ...
RECURSIVE JoinRows(_, _)
JoinRows(sf, k) ==
    IF k = 1 THEN {(sf[1].table :> r) : r \in TableRows[sf[1].table]}
    ELSE ExtendJoin(JoinRows(sf, k - 1), sf[k])

\* the tables an expression refers to
RECURSIVE ClauseTables(_)
ClauseTables(expr) ==
    CASE expr.kind \in {"and", "or"} ->
            UNION {ClauseTables(expr.clauses[k]) : k \in DOMAIN expr.clauses}
      [] expr.kind = "not" -> ClauseTables(expr.clause)
      [] expr.kind = "tuple_in" -> {expr.columns[k][1] : k \in DOMAIN expr.columns}
      [] OTHER -> {expr.column[1]}

\* a table the statement refers to without joining it is added to FROM
RECURSIVE CrossRows(_, _)
CrossRows(combos, extra) ==
    IF extra = {} THEN combos
    ELSE LET t == CHOOSE t \in extra : TRUE
         IN CrossRows(ExtendJoin(combos, [table |-> t, on |-> <<>>]), extra \ {t})

\* a joined row as one row: (table, column) -> cell
FlatRow(combo) ==
    [col \in UNION {{<<t, c>> : c \in DOMAIN combo[t]} : t \in DOMAIN combo} |->
        combo[col[1]][col[2]]]

\* select(*table_columns).select_from(select_from).where(query_model), executed
Execute(tcs, sf, where) ==
    LET referred == ClauseTables(where) \cup {tc.column[1] : tc \in tcs}
        from == CrossRows(JoinRows(sf, Len(sf)), referred \ JoinTables(sf))
    IN {[source |-> c, values |-> [label \in {tc.label : tc \in tcs} |->
                  LET tc == CHOOSE tc \in tcs : tc.label = label
                  IN c[tc.column[1]][tc.column[2]]]] :
           c \in {c \in from : Sem(where, FlatRow(c)) = "T"}}

\* lines 492-497: the statement is built and executed, the rows are returned
fetch_data ==
    /\ pc = "done"
    /\ outcome = "join"
    /\ result' = Execute(table_columns, select_from, query_model)
    /\ pc' = "fetched"
    /\ UNCHANGED <<joinVars, commandVars, treeVars, columns, data_ids, table_columns, table_names,
                   data_id_columns, query_model>>
    /\ UNCHANGED <<tables_list, i, join_path, j, joined_tables, select_from, outcome, prev,
                   find_calls>>

\* the call has returned or raised
return ==
    /\ \/ pc = "fetched"
       \/ pc = "done" /\ outcome # "join"
    /\ pc' = "idle"
    /\ tables_list' = <<>>
    /\ i' = 0
    /\ j' = 0
    /\ join_path' = <<>>
    /\ joined_tables' = {}
    /\ select_from' = <<>>
    /\ outcome' = "none"
    /\ find_calls' = 0
    /\ query' = NoQuery
    /\ query_result' = NoResult
    /\ columns' = <<>>
    /\ data_ids' = NoDataIds
    /\ table_columns' = {}
    /\ table_names' = {}
    /\ data_id_columns' = <<>>
    /\ query_model' = NoClause
    /\ result' = {}
    /\ UNCHANGED <<joinVars, commandVars, wire, prev>>

InitQuery ==
    /\ tables = LiveTables
    /\ joins \in QueryJoinLists
    /\ join_graph = build_join_graph(tables, joins)
    /\ stored = <<>>
    /\ NoCall

NextQuery ==
    \/ ConsDbSchema_query
    \/ NextTable
    \/ JoinStep
    \/ PathDone
    \/ Return
    \/ fetch_data
    \/ return

SpecQuery == InitQuery /\ [][NextQuery]_vars

(***************************************************************************)
(* SpecColumn: ConsDbSchema.get_column on a reference string.  A string is *)
(* a sequence of tokens: "." is the dot, any other token is a name without *)
(* a dot; two names in a row spell a longer name that is in no schema.     *)
(***************************************************************************)
MaxReference == 4   \* tokens in a reference string

ReferenceTokens == {"exposure", "ra", "."}

References == UNION {[1..n -> ReferenceTokens] : n \in 0..MaxReference}

\* str.split("."): the parts between the dots; "" splits into one empty part
RECURSIVE split(_)
split(ref) ==
    IF ref = <<>> THEN << <<>> >>
    ELSE LET parts == split(SubSeq(ref, 1, Len(ref) - 1))
             token == ref[Len(ref)]
             n == Len(parts)
         IN IF token = "." THEN Append(parts, <<>>)
            ELSE [parts EXCEPT ![n] = Append(parts[n], token)]

\* a part of a reference is the name of a key of the mapping
NameIn(part, keys) == Len(part) = 1 /\ part[1] \in keys

\* get_column that returns None for a reference it cannot resolve
get_column_or_none(tabs, ref) ==
    LET parts == split(ref)
    IN IF /\ Len(parts) = 2
          /\ NameIn(parts[1], DOMAIN tabs)
          /\ NameIn(parts[2], tabs[parts[1][1]])
       THEN [error |-> "none", column |-> <<parts[1][1], parts[2][1]>>]
       ELSE [error |-> "none", column |-> <<>>]

\* ConsDbSchema.get_column (lines 370-384): the unpacking of line 383 raises
\* ValueError unless there are exactly two parts, the lookups of line 384
\* raise KeyError
get_column(tabs, ref) ==
    LET parts == split(ref)
    IN IF Len(parts) # 2 THEN [error |-> "ValueError", column |-> <<>>]
       ELSE IF ~NameIn(parts[1], DOMAIN tabs) THEN [error |-> "KeyError", column |-> <<>>]
       ELSE IF ~NameIn(parts[2], tabs[parts[1][1]]) THEN [error |-> "KeyError", column |-> <<>>]
       ELSE [error |-> "none", column |-> <<parts[1][1], parts[2][1]>>]

\* database.get_column(column), for any string
get_column_call ==
    /\ pc = "idle"
    /\ \E ref \in References :
          /\ reference' = ref
          /\ looked_up' = get_column(tables, ref)
    /\ UNCHANGED <<joinVars, buildVars, callVars, stored, command, contents, response, extraVars>>

InitColumn ==
    /\ tables = LiveTables
    /\ joins = <<>>
    /\ join_graph = build_join_graph(tables, joins)
    /\ stored = <<>>
    /\ NoCall

NextColumn == get_column_call

SpecColumn == InitColumn /\ [][NextColumn]_vars

(***************************************************************************)
(* SpecCommand: the worker receives a command, the command builds its      *)
(* contents (commands/db.py) and a response is sent.  The database holds   *)
(* the fixture rows, except that the cells of exposure.ra are drawn freely.*)
(***************************************************************************)
MaxRows == 3        \* rows of the column exposure.ra

StoredCells == {<<>>, <<-1>>, <<0>>, <<1>>}

\* the dec column of the test database, with its two NULLs
TestValues ==
    << <<-40>>, <<-30>>, <<>>, <<-10>>, <<0>>, <<10>>, <<>>, <<30>>, <<40>>, <<50>> >>

ColumnContents == UNION {[1..n -> StoredCells] : n \in 0..MaxRows} \cup {TestValues}

\* the cells of a column of the database
ColumnCells(column, cells) ==
    IF column = <<"exposure", "ra">> THEN Range(cells)
    ELSE {r[column[2]] : r \in TableRows[column[1]]}

\* MIN with NULL counted as 0
SqlMinNullAsZero(cells) ==
    LET vals == {IF c = <<>> THEN 0 ELSE c[1] : c \in cells}
    IN IF vals = {} THEN <<>> ELSE <<CHOOSE m \in vals : \A v \in vals : m <= v>>

\* SELECT min(column) (line 517): NULLs are skipped, no value gives NULL
SqlMin(cells) ==
    LET vals == {c[1] : c \in cells \ {<<>>}}
    IN IF vals = {} THEN <<>> ELSE <<CHOOSE m \in vals : \A v \in vals : m <= v>>

\* SELECT max(column) (line 525)
SqlMax(cells) ==
    LET vals == {c[1] : c \in cells \ {<<>>}}
    IN IF vals = {} THEN <<>> ELSE <<CHOOSE m \in vals : \A v \in vals : v <= m>>

NoBounds == <<>>

\* calculate_bounds that answers (None, None) for a column it does not find
calculate_bounds_or_none(tabs, ref, cells) ==
    LET parts == split(ref)
    IN IF /\ Len(parts) = 2
          /\ NameIn(parts[1], DOMAIN tabs)
          /\ NameIn(parts[2], tabs[parts[1][1]])
       THEN LET column == <<parts[1][1], parts[2][1]>>
            IN [error |-> "none",
                bounds |-> <<SqlMin(ColumnCells(column, cells)),
                             SqlMax(ColumnCells(column, cells))>>]
       ELSE [error |-> "none", bounds |-> << <<>>, <<>> >>]

\* ConsDbSchema.calculate_bounds (lines 499-532): the unpacking of line 512
\* raises ValueError, the reflection of line 513 NoSuchTableError, the lookup
\* of line 514 KeyError; an aggregate always returns one row, so the two
\* ValueErrors of lines 523 and 531 are never raised
calculate_bounds(tabs, ref, cells) ==
    LET parts == split(ref)
    IN IF Len(parts) # 2 THEN [error |-> "ValueError", bounds |-> NoBounds]
       ELSE IF ~NameIn(parts[1], DOMAIN tabs)
       THEN [error |-> "NoSuchTableError", bounds |-> NoBounds]
       ELSE IF ~NameIn(parts[2], tabs[parts[1][1]])
       THEN [error |-> "KeyError", bounds |-> NoBounds]
       ELSE LET column == <<parts[1][1], parts[2][1]>>
            IN [error |-> "none",
                bounds |-> <<SqlMin(ColumnCells(column, cells)),
                             SqlMax(ColumnCells(column, cells))>>]

\* the column strings of the commands
BoundsReferences ==
    { <<"exposure", ".", "ra">>, <<"exposure", ".", "dec">>,
      <<"visit1_quicklook", ".", "exp_time">>, <<"exposure", ".", "airmass">>,
      <<"InvalidTable", ".", "invalid_column">>, <<"ra">>,
      <<"exposure", ".", "ra", ".", "dec">> }

LoadReferences ==
    { <<"exposure", ".", "ra">>, <<"exposure", ".", "airmass">>,
      <<"InvalidTable", ".", "invalid_column">>, <<"ra">> }

GoodDict == RightNode([schema |-> "exposure", name |-> "dec"], "gt", 0)

BadDict == BareNode([schema |-> "exposure", name |-> "dec"])

\* the commands a client sends (commands/db.py, lines 40-76 and 129-142)
Commands ==
    {[name |-> "get bounds", column |-> ref] : ref \in BoundsReferences}
    \cup {[name |-> "load columns", columns |-> cols, query |-> q, global_query |-> g,
           day_obs |-> d] :
              cols \in {<<>>} \cup {<<ref>> : ref \in LoadReferences},
              q \in {NoDict, GoodDict, BadDict}, g \in {NoDict, GoodDict},
              d \in {"none", "2024-01-01"}}

\* the content returned by build_contents, and the exception it raised
Contents(content) == [error |-> "none", content |-> content]

ContentsRaised(error) == [error |-> error]

\* LoadColumnsCommand.build_contents (lines 78-125): the queries are parsed,
\* the day_obs filter is built, and line 115 calls database.query with four
\* arguments, one more than ConsDbSchema.query takes (lines 448-453), which
\* raises TypeError before query() runs; lines 117-125 are never reached
LoadColumnsCommand_build_contents(cmd) ==
    LET q == IF cmd.query = NoDict THEN NoQuery ELSE Query_from_dict(cmd.query)
        g == IF cmd.global_query = NoDict THEN NoQuery ELSE Query_from_dict(cmd.global_query)
    IN IF q.class = "QueryError" \/ g.class = "QueryError" THEN ContentsRaised("QueryError")
       ELSE IF cmd.day_obs # "none" /\ cmd.columns = <<>> THEN ContentsRaised("IndexError")
       ELSE IF /\ cmd.day_obs # "none"
               /\ ~NameIn(split(cmd.columns[1])[1],
                          Range(exposure_tables) \cup Range(visit1_tables))
       THEN ContentsRaised("ValueError")
       ELSE ContentsRaised("TypeError")

\* CalculateBoundsCommand.build_contents (lines 144-153)
CalculateBoundsCommand_build_contents(cmd, tabs, cells) ==
    LET data == calculate_bounds(tabs, cmd.column, cells)
    IN IF data.error # "none" THEN ContentsRaised(data.error)
       ELSE Contents([column |-> cmd.column, bounds |-> data.bounds])

\* the response type of a command (lines 76 and 142)
response_type(cmd) == IF cmd.name = "get bounds" THEN "column bounds" ELSE "table columns"

\* the dispatch boundary: an exception of build_contents becomes an error
\* response of kind "execution error", a returned dict becomes the content
execute_command(cmd, built) ==
    IF built.error # "none" THEN [type |-> "error", error |-> "execution error"]
    ELSE [type |-> response_type(cmd), content |-> built.content]

\* a command arrives
receive ==
    /\ pc \in {"idle", "responded"}
    /\ \E cmd \in Commands : command' = cmd
    /\ contents' = NoContents
    /\ response' = NoResponse
    /\ pc' = "received"
    /\ UNCHANGED <<joinVars, callVars, reference, looked_up, stored, extraVars>>
    /\ UNCHANGED <<tables_list, i, join_path, j, joined_tables, select_from, outcome, prev,
                   find_calls>>

\* command.build_contents(data_center)
build_contents ==
    /\ pc = "received"
    /\ contents' = IF command.name = "get bounds"
                   THEN CalculateBoundsCommand_build_contents(command, tables, stored)
                   ELSE LoadColumnsCommand_build_contents(command)
    /\ pc' = "built"
    /\ UNCHANGED <<joinVars, callVars, reference, looked_up, stored, command, response,
                   extraVars>>
    /\ UNCHANGED <<tables_list, i, join_path, j, joined_tables, select_from, outcome, prev,
                   find_calls>>

\* the response is sent
respond ==
    /\ pc = "built"
    /\ response' = execute_command(command, contents)
    /\ pc' = "responded"
    /\ UNCHANGED <<joinVars, callVars, reference, looked_up, stored, command, contents,
                   extraVars>>
    /\ UNCHANGED <<tables_list, i, join_path, j, joined_tables, select_from, outcome, prev,
                   find_calls>>

InitCommand ==
    /\ tables = LiveTables
    /\ joins = CoreJoins
    /\ join_graph = build_join_graph(tables, joins)
    /\ stored \in ColumnContents
    /\ NoCall

NextCommand ==
    \/ receive
    \/ build_contents
    \/ respond

SpecCommand == InitCommand /\ [][NextCommand]_vars

(***************************************************************************)
(* The connections of the engine: ConsDbSchema.fetch_data and              *)
(* ConsDbSchema.calculate_bounds step by step.  The database may fail any  *)
(* statement it is sent.                                                   *)
(***************************************************************************)
MaxOpen == 2        \* connections the pool of the engine hands out

\* the contents of exposure.ra the requests run against
StoredFixtures == {<<>>, << <<>> >>, << <<-1>>, <<1>> >>, TestValues}

\* statements as ConsDbSchema.query builds them (lines 480-496): the columns,
\* the join and the WHERE clause with its NULL guard
Statements ==
    { [table_columns |-> {Label(<<"exposure", "ra">>, <<"exposure", "ra">>)},
       select_from |-> <<[table |-> "exposure", on |-> <<>>]>>,
       query_model |-> IsNotNull(<<"exposure", "ra">>)],
      [table_columns |-> {Label(<<"exposure", "dec">>, <<"exposure", "dec">>)},
       select_from |-> <<[table |-> "exposure", on |-> <<>>]>>,
       query_model |-> Compare("gt", <<"exposure", "dec">>, 0)],
      [table_columns |-> {Label(<<"visit1", "visit_id">>, <<"visit1", "visit_id">>)},
       select_from |-> <<[table |-> "visit1", on |-> <<>>]>>,
       query_model |-> IsNotNull(<<"visit1", "visit_id">>)] }

\* self.engine.connect(): a connection is checked out of the pool, or the
\* pool has none left and the call raises TimeoutError
connect(then) ==
    IF connections < MaxOpen
    THEN /\ connections' = connections + 1
         /\ pc' = then
         /\ outcome' = "none"
    ELSE /\ connections' = connections
         /\ pc' = "raised"
         /\ outcome' = "TimeoutError"

\* an exception leaves the calling method
raise(error) ==
    /\ pc' = "raised"
    /\ outcome' = error

\* fetch_data, line 395: connection = self.engine.connect()
fetch_connect ==
    /\ pc = "idle"
    /\ \E st \in Statements :
          /\ table_columns' = st.table_columns
          /\ select_from' = st.select_from
          /\ query_model' = st.query_model
    /\ connect("connected")
    /\ UNCHANGED <<joinVars, treeVars, columns, data_ids, table_names, data_id_columns, result>>
    /\ UNCHANGED <<tables_list, i, join_path, j, joined_tables, prev, find_calls>>
    /\ UNCHANGED <<reference, looked_up, stored, command, contents, response, metadata, bounds,
                   serverVars, pathVars>>

\* fetch_data, line 396: result = connection.execute(query_model); an
\* exception leaves fetch_data with the connection as it is
fetch_execute ==
    /\ pc = "connected"
    /\ \E ok \in BOOLEAN :
          IF ok THEN pc' = "executed" /\ outcome' = outcome
          ELSE raise("DBAPIError")
    /\ UNCHANGED <<joinVars, callVars, commandVars>>
    /\ UNCHANGED <<tables_list, i, join_path, j, joined_tables, select_from, prev, find_calls>>

\* fetch_data, line 397: data = result.fetchall()
fetch_fetchall ==
    /\ pc = "executed"
    /\ \E ok \in BOOLEAN :
          IF ok
          THEN /\ result' = Execute(table_columns, select_from, query_model)
               /\ pc' = "fetchedall"
               /\ outcome' = outcome
          ELSE /\ raise("DBAPIError")
               /\ result' = result
    /\ UNCHANGED <<joinVars, commandVars, treeVars, columns, data_ids, table_columns,
                   table_names, data_id_columns, query_model>>
    /\ UNCHANGED <<tables_list, i, join_path, j, joined_tables, select_from, prev, find_calls>>

\* fetch_data, lines 398-401: connection.close(), and the columns are returned
fetch_close ==
    /\ pc = "fetchedall"
    /\ connections' = connections - 1
    /\ pc' = "returned"
    /\ outcome' = "data"
    /\ UNCHANGED <<joinVars, callVars>>
    /\ UNCHANGED <<tables_list, i, join_path, j, joined_tables, select_from, prev, find_calls>>
    /\ UNCHANGED <<reference, looked_up, stored, command, contents, response, metadata, bounds,
                   serverVars, pathVars>>

\* calculate_bounds, lines 512-514: the string is unpacked, the table is
\* reflected by its bare name into self.metadata, the column is looked up. A
\* table that cannot be reflected is taken out of the metadata again.
bounds_reflect ==
    /\ pc = "idle"
    /\ \E ref \in BoundsReferences :
          LET parts == split(ref)
              error == calculate_bounds(tables, ref, stored).error
          IN /\ reference' = ref
             /\ metadata' = IF Len(parts) = 2 /\ NameIn(parts[1], DOMAIN tables)
                            THEN metadata \cup {BareKey(parts[1][1])}
                            ELSE metadata
             /\ IF error = "none" THEN pc' = "reflected" /\ outcome' = "none"
                ELSE raise(error)
    /\ UNCHANGED <<joinVars, callVars>>
    /\ UNCHANGED <<tables_list, i, join_path, j, joined_tables, select_from, prev, find_calls>>
    /\ UNCHANGED <<looked_up, stored, command, contents, response, connections, bounds,
                   serverVars, pathVars>>

\* calculate_bounds, line 516: with self.engine.connect() as connection
bounds_connect ==
    /\ pc = "reflected"
    /\ connect("with")
    /\ UNCHANGED <<joinVars, callVars>>
    /\ UNCHANGED <<tables_list, i, join_path, j, joined_tables, select_from, prev, find_calls>>
    /\ UNCHANGED <<reference, looked_up, stored, command, contents, response, metadata, bounds,
                   serverVars, pathVars>>

\* the column calculate_bounds has looked up
BoundsColumn == LET parts == split(reference) IN <<parts[1][1], parts[2][1]>>

\* calculate_bounds, lines 517-523: the minimum is selected; an exception
\* leaves the with block, which closes the connection
bounds_min ==
    /\ pc = "with"
    /\ \E ok \in BOOLEAN :
          IF ok
          THEN /\ bounds' = <<SqlMin(ColumnCells(BoundsColumn, stored))>>
               /\ pc' = "min"
               /\ outcome' = outcome
               /\ connections' = connections
          ELSE /\ raise("DBAPIError")
               /\ connections' = connections - 1
               /\ bounds' = bounds
    /\ UNCHANGED <<joinVars, callVars>>
    /\ UNCHANGED <<tables_list, i, join_path, j, joined_tables, select_from, prev, find_calls>>
    /\ UNCHANGED <<reference, looked_up, stored, command, contents, response, metadata,
                   serverVars, pathVars>>

\* calculate_bounds, lines 525-532: the maximum is selected, the with block
\* is left and the pair is returned
bounds_max ==
    /\ pc = "min"
    /\ \E ok \in BOOLEAN :
          IF ok
          THEN /\ bounds' = Append(bounds, SqlMax(ColumnCells(BoundsColumn, stored)))
               /\ pc' = "returned"
               /\ outcome' = "bounds"
          ELSE /\ raise("DBAPIError")
               /\ bounds' = bounds
    /\ connections' = connections - 1
    /\ UNCHANGED <<joinVars, callVars>>
    /\ UNCHANGED <<tables_list, i, join_path, j, joined_tables, select_from, prev, find_calls>>
    /\ UNCHANGED <<reference, looked_up, stored, command, contents, response, metadata,
                   serverVars, pathVars>>

\* the request that called the method ends
request_ends ==
    /\ pc \in {"returned", "raised"}
    /\ pc' = "idle"
    /\ outcome' = "none"
    /\ table_columns' = {}
    /\ select_from' = <<>>
    /\ query_model' = NoClause
    /\ result' = {}
    /\ reference' = <<>>
    /\ bounds' = <<>>
    /\ UNCHANGED <<joinVars, treeVars, columns, data_ids, table_names, data_id_columns>>
    /\ UNCHANGED <<tables_list, i, join_path, j, joined_tables, prev, find_calls>>
    /\ UNCHANGED <<looked_up, stored, command, contents, response, connections, metadata,
                   serverVars, pathVars>>

\* a Connection that nothing refers to any more is collected, and the pool
\* takes its connection back
finalize ==
    /\ pc = "idle"
    /\ connections > 0
    /\ connections' = connections - 1
    /\ UNCHANGED <<joinVars, buildVars, callVars>>
    /\ UNCHANGED <<reference, looked_up, stored, command, contents, response, metadata, bounds,
                   serverVars, pathVars>>

InitConnection ==
    /\ tables = LiveTables
    /\ joins = CoreJoins
    /\ join_graph = build_join_graph(tables, joins)
    /\ stored \in StoredFixtures
    /\ NoCall

NextConnection ==
    \/ fetch_connect
    \/ fetch_execute
    \/ fetch_fetchall
    \/ fetch_close
    \/ bounds_reflect
    \/ bounds_connect
    \/ bounds_min
    \/ bounds_max
    \/ request_ends
    \/ finalize

SpecConnection == InitConnection /\ [][NextConnection]_vars

(***************************************************************************)
(* SpecServer: scripts/mock_server.py.  Clients and workers open           *)
(* websockets, clients send messages, a worker answers the jobs it was     *)
(* sent one after the other, and any socket may close.  Each handler runs  *)
(* to its end on the event loop before the next one starts.                *)
(***************************************************************************)
ClientIds == 1..MaxClients

WorkerIds == 1..MaxWorkers

\* the n-th message of client c; the reply to it is told by the same pair
Messages == ClientIds \X (1..MaxMessages)

\* connected_client = None
NoClient == 0

\* WorkerPod.__init__ (lines 166-170)
WorkerPod(wid) == [wid |-> wid, status |-> "idle", connected_client |-> NoClient]

\* QueueItem (lines 203-216)
QueueItem(message, client) == [message |-> message, client |-> client]

\* the first worker of WebSocketHandler.workers.values() that is idle (lines
\* 102-106), 0 for None
IdleWorker(ws) ==
    IF \E k \in DOMAIN ws : ws[k].status = "idle"
    THEN CHOOSE k \in DOMAIN ws :
            /\ ws[k].status = "idle"
            /\ \A m \in DOMAIN ws : ws[m].status = "idle" => k <= m
    ELSE 0

\* the first worker whose connected_client is the handler (lines 133-136)
WorkerOf(ws, client) ==
    IF \E k \in DOMAIN ws : ws[k].connected_client = client
    THEN CHOOSE k \in DOMAIN ws :
            /\ ws[k].connected_client = client
            /\ \A m \in DOMAIN ws : ws[m].connected_client = client => k <= m
    ELSE 0

\* the place of the worker with this id in WebSocketHandler.workers
WorkerAt(ws, wid) == CHOOSE k \in DOMAIN ws : ws[k].wid = wid

\* WorkerPod.process (lines 172-186) of the k-th worker: the worker is busy
\* for the client and the job is written to its socket
process(ws, box, k, message, client) ==
    [workers |-> [ws EXCEPT ![k] = [wid |-> ws[k].wid, status |-> "busy",
                                    connected_client |-> client]],
     inbox |-> [box EXCEPT ![ws[k].wid] = Append(@, message)]]

\* WorkerPod.on_finished (lines 188-200) of the k-th worker, for a reply of
\* the worker: the clients the message is written to
Forwarded(ws, k, open_clients) ==
    IF ws[k].connected_client # NoClient /\ ws[k].connected_client \in open_clients
    THEN {ws[k].connected_client}
    ELSE {}

\* WorkerPod.on_finished, lines 199-200
Idle(ws, k) == [ws EXCEPT ![k] = WorkerPod(ws[k].wid)]

\* del WebSocketHandler.workers[self.client_id]
Without(ws, wid) == SelectSeq(ws, LAMBDA w : w.wid # wid)

serverOthers == <<joinVars, buildVars, callVars, reference, looked_up, stored, command,
                  contents, response, engineVars, pathVars>>

\* open("client") (lines 76, 82-86): the handler gets a fresh id
open_client ==
    /\ \E c \in ClientIds :
          /\ <<"client", c>> \notin used
          /\ used' = used \cup {<<"client", c>>}
          /\ clients' = clients \cup {c}
    /\ UNCHANGED <<workers, queue, inbox, delivered, posted, dispatched>>
    /\ UNCHANGED serverOthers

\* open("worker") (lines 76-81)
open_worker ==
    /\ \E w \in WorkerIds :
          /\ <<"worker", w>> \notin used
          /\ used' = used \cup {<<"worker", w>>}
          /\ workers' = Append(workers, WorkerPod(w))
    /\ UNCHANGED <<clients, queue, inbox, delivered, posted, dispatched>>
    /\ UNCHANGED serverOthers

\* on_message of a client (lines 97-113)
on_message_client ==
    /\ \E c \in clients :
          /\ posted[c] < MaxMessages
          /\ LET message == <<c, posted[c] + 1>>
                 idle_worker == IdleWorker(workers)
             IN /\ posted' = [posted EXCEPT ![c] = @ + 1]
                /\ IF idle_worker = 0
                   THEN /\ queue' = Append(queue, QueueItem(message, c))
                        /\ UNCHANGED <<workers, inbox, dispatched>>
                   ELSE LET sent == process(workers, inbox, idle_worker, message, c)
                        IN /\ workers' = sent.workers
                           /\ inbox' = sent.inbox
                           /\ dispatched' = dispatched \cup {message}
                           /\ queue' = queue
    /\ UNCHANGED <<clients, delivered, used>>
    /\ UNCHANGED serverOthers

\* the worker answers the oldest job it was sent, and on_message of the
\* worker (lines 115-124) runs on the reply
on_message_worker(w) ==
    /\ \E k \in DOMAIN workers : workers[k].wid = w
    /\ inbox[w] # <<>>
    /\ LET k == WorkerAt(workers, w)
           answer == Head(inbox[w])
           answered == [inbox EXCEPT ![w] = Tail(@)]
           finished == Idle(workers, k)
       IN /\ delivered' = delivered \cup
                 {[reply |-> answer, client |-> c] : c \in Forwarded(workers, k, clients)}
          /\ IF Len(queue) > 0
             THEN LET queue_item == Head(queue)
                      sent == process(finished, answered, k, queue_item.message,
                                      queue_item.client)
                  IN /\ queue' = Tail(queue)
                     /\ workers' = sent.workers
                     /\ inbox' = sent.inbox
                     /\ dispatched' = dispatched \cup {queue_item.message}
             ELSE /\ workers' = finished
                  /\ inbox' = answered
                  /\ UNCHANGED <<queue, dispatched>>
    /\ UNCHANGED <<clients, posted, used>>
    /\ UNCHANGED serverOthers

\* on_close of a client (lines 130-136): on_finished("Client disconnected")
\* of the first worker that is connected to it
on_close_client ==
    /\ \E c \in clients :
          /\ clients' = clients \ {c}
          /\ workers' = IF WorkerOf(workers, c) = 0 THEN workers
                        ELSE Idle(workers, WorkerOf(workers, c))
    /\ UNCHANGED <<queue, inbox, delivered, posted, dispatched, used>>
    /\ UNCHANGED serverOthers

\* on_close of a worker (lines 137-139); the jobs it had are gone with it
on_close_worker ==
    /\ \E k \in DOMAIN workers :
          /\ workers' = Without(workers, workers[k].wid)
          /\ inbox' = [inbox EXCEPT ![workers[k].wid] = <<>>]
    /\ UNCHANGED <<clients, queue, delivered, posted, dispatched, used>>
    /\ UNCHANGED serverOthers

InitServer ==
    /\ tables = LiveTables
    /\ joins = <<>>
    /\ join_graph = build_join_graph(tables, joins)
    /\ stored = <<>>
    /\ NoCall

NextServer ==
    \/ open_client
    \/ open_worker
    \/ on_message_client
    \/ \E w \in WorkerIds : on_message_worker(w)
    \/ on_close_client
    \/ on_close_worker

\* a worker that is connected answers every job it was sent
SpecServer ==
    InitServer /\ [][NextServer]_vars /\ \A w \in WorkerIds : WF_vars(on_message_worker(w))

(***************************************************************************)
(* SpecPath: commands/file.py, sanitize_path.  A string is the sequence of *)
(* its characters; os.path is posixpath.                                   *)
(***************************************************************************)
\* str.startswith
startswith(s, prefix) ==
    Len(prefix) <= Len(s) /\ SubSeq(s, 1, Len(prefix)) = prefix

\* str.endswith("/")
EndsWithSlash(s) == s # <<>> /\ s[Len(s)] = "/"

\* posixpath.join(a, *p)
RECURSIVE os_path_join(_, _)
os_path_join(a, p) ==
    IF p = <<>> THEN a
    ELSE LET b == Head(p)
             path == IF startswith(b, <<"/">>) THEN b
                     ELSE IF a = <<>> \/ EndsWithSlash(a) THEN a \o b
                     ELSE a \o <<"/">> \o b
         IN os_path_join(path, Tail(p))

\* path.split("/")
RECURSIVE SplitSlash(_)
SplitSlash(s) ==
    IF s = <<>> THEN << <<>> >>
    ELSE LET parts == SplitSlash(SubSeq(s, 1, Len(s) - 1))
             n == Len(parts)
         IN IF s[Len(s)] = "/" THEN Append(parts, <<>>)
            ELSE [parts EXCEPT ![n] = Append(parts[n], s[Len(s)])]

\* "/".join(comps)
RECURSIVE JoinSlash(_)
JoinSlash(comps) ==
    IF comps = <<>> THEN <<>>
    ELSE IF Len(comps) = 1 THEN comps[1]
    ELSE comps[1] \o <<"/">> \o JoinSlash(Tail(comps))

\* posixpath.normpath: the number of slashes kept at the front
InitialSlashes(path) ==
    IF startswith(path, <<"/", "/">>) /\ ~startswith(path, <<"/", "/", "/">>) THEN 2
    ELSE IF startswith(path, <<"/">>) THEN 1
    ELSE 0

\* posixpath.normpath: the loop over the components
RECURSIVE NewComps(_, _, _)
NewComps(comps, new_comps, initial_slashes) ==
    IF comps = <<>> THEN new_comps
    ELSE LET comp == Head(comps)
         IN IF comp = <<>> \/ comp = <<".">>
            THEN NewComps(Tail(comps), new_comps, initial_slashes)
            ELSE IF \/ comp # <<".", ".">>
                    \/ (initial_slashes = 0 /\ new_comps = <<>>)
                    \/ (new_comps # <<>> /\ new_comps[Len(new_comps)] = <<".", ".">>)
            THEN NewComps(Tail(comps), Append(new_comps, comp), initial_slashes)
            ELSE IF new_comps # <<>>
            THEN NewComps(Tail(comps), SubSeq(new_comps, 1, Len(new_comps) - 1),
                          initial_slashes)
            ELSE NewComps(Tail(comps), new_comps, initial_slashes)

\* posixpath.normpath
os_path_normpath(path) ==
    IF path = <<>> THEN <<".">>
    ELSE LET initial_slashes == InitialSlashes(path)
             joined == JoinSlash(NewComps(SplitSlash(path), <<>>, initial_slashes))
             normal == [k \in 1..initial_slashes |-> "/"] \o joined
         IN IF normal = <<>> THEN <<".">> ELSE normal

\* os.getcwd()
Cwd == <<"/", "b">>

\* posixpath.abspath
os_path_abspath(path) ==
    IF startswith(path, <<"/">>) THEN os_path_normpath(path)
    ELSE os_path_normpath(os_path_join(Cwd, <<path>>))

\* sanitize_path (lines 36-58)
sanitize_path(base, user) ==
    LET full_path == os_path_normpath(os_path_join(base, user))
    IN IF ~startswith(full_path, os_path_abspath(base))
       THEN [error |-> "ValueError", path |-> <<>>]
       ELSE [error |-> "none", path |-> full_path]

\* data_center.user_path: the base directories
BasePaths ==
    { <<"/", "a">>, <<"/", "a", "/">>, <<"/", "a", "/", "b">>, <<"a">> }

\* the components a client may put in a path
Components ==
    { <<"a">>, <<"b">>, <<"a", "b">>, <<".">>, <<".", ".">>, <<>>,
      <<"/", "a", "b">>, <<"/", "a", "/", "a">>, <<"b", "/", ".", ".", "/", ".", ".", "/", "b">> }

UserPaths == UNION {[1..n -> Components] : n \in 0..MaxComponents}

\* sanitize_path(base_path, user_path), for any path of a client
sanitize_path_call ==
    /\ \E base \in BasePaths : \E user \in UserPaths :
          /\ base_path' = base
          /\ user_path' = user
          /\ sanitized' = sanitize_path(base, user)
    /\ UNCHANGED <<joinVars, buildVars, callVars, reference, looked_up, stored, command,
                   contents, response, engineVars, serverVars>>

InitPath ==
    /\ tables = LiveTables
    /\ joins = <<>>
    /\ join_graph = build_join_graph(tables, joins)
    /\ stored = <<>>
    /\ NoCall

NextPath == sanitize_path_call

SpecPath == InitPath /\ [][NextPath]_vars

(***************************************************************************)
(* Graph notions the claims are stated with, computed from the adjacency   *)
(* of the join graph alone.                                                *)
(***************************************************************************)
IsEdge(graph, a, b) == DictHas(graph[a], b)

Grow(graph, S) == S \cup {n \in DOMAIN graph : \E s \in S : IsEdge(graph, s, n)}

RECURSIVE ReachWithin(_, _, _)
ReachWithin(graph, S, k) ==
    IF k = 0 THEN S ELSE ReachWithin(graph, Grow(graph, S), k - 1)

Connected(graph, a, b) == b \in ReachWithin(graph, {a}, Cardinality(DOMAIN graph))

\* the number of edges of a shortest path from a to b (a and b connected)
Distance(graph, a, b) ==
    CHOOSE k \in 0..Cardinality(DOMAIN graph) :
        /\ b \in ReachWithin(graph, {a}, k)
        /\ \A m \in 0..(k - 1) : b \notin ReachWithin(graph, {a}, m)

IsPath(graph, p) == \A k \in 1..(Len(p) - 1) : IsEdge(graph, p[k], p[k + 1])

ShortestPath(graph, p, start, end) ==
    /\ p # <<>>
    /\ p[1] = start
    /\ p[Len(p)] = end
    /\ IsPath(graph, p)
    /\ Len(p) - 1 = Distance(graph, start, end)

\* C1: for every pair of connected tables _find_join_path returns a path from
\* start to end over edges of the join graph, and no shorter path exists; the
\* path build_join holds after the call is such a path from tables[0] to tables[i].
C1_ShortestJoinPath ==
    /\ pc = "idle" =>
          \A start, end \in DOMAIN join_graph :
              Connected(join_graph, start, end) =>
                  LET found == find_join_path(join_graph, start, end)
                  IN ~found.raised /\ ShortestPath(join_graph, found.path, start, end)
    /\ pc = "for_j" =>
          ShortestPath(join_graph, join_path, tables_list[1], tables_list[i])

\* a path through an intermediate table was found from a table with two neighbours
C1_Witness ==
    /\ pc = "for_j"
    /\ Len(join_path) = 3
    /\ Len(join_graph[tables_list[1]]) >= 2

(***************************************************************************)
(* The requested set, the tables of the join and the edges it walks.       *)
(***************************************************************************)
Requested == Range(tables_list)

Anchor == tables_list[1]

AllReachable == \A t \in Requested : Connected(join_graph, Anchor, t)

\* the tables on the paths found from the anchor to the requested tables
OnFoundPaths ==
    UNION {Range(find_join_path(join_graph, Anchor, t).path) : t \in Requested}

\* an edge whose column pairs give at least one condition on existing columns,
\* and no more conditions than the join takes
UsableEdge(a, b) ==
    LET pairs == DictGet(join_graph[a], b)
    IN /\ pairs # <<>>
       /\ Len(pairs) <= MaxJoinArguments
       /\ ~MissingColumn(tables, a, b, pairs)

PathUsable(p) == \A k \in 1..(Len(p) - 1) : UsableEdge(p[k], p[k + 1])

FoundPathsUsable ==
    \A t \in Requested : PathUsable(find_join_path(join_graph, Anchor, t).path)

JoinCoversRequest ==
    /\ outcome = "join"
    /\ Requested \subseteq JoinTables(select_from)
    /\ JoinTables(select_from) \subseteq OnFoundPaths

\* C2 as stated: whenever all requested tables are reachable from the anchor,
\* build_join returns a join over all of them plus intermediate tables only.
C2_Original ==
    (pc = "done" /\ AllReachable) => JoinCoversRequest

\* C2 amended: the same, provided every edge of the paths found carries at
\* least one column pair and names only columns the live tables have; and a
\* join that is returned always covers the request with intermediates only.
C2_JoinCoversRequest ==
    /\ (pc = "done" /\ AllReachable /\ FoundPathsUsable) => JoinCoversRequest
    /\ (pc = "done" /\ outcome = "join") => JoinCoversRequest

\* a join was returned that holds a table nobody requested
C2_Witness ==
    /\ pc = "done"
    /\ outcome = "join"
    /\ JoinTables(select_from) # Requested
    /\ Cardinality(Requested) >= 2

\* the join resolution errors (the spec's JoinPathError): no path, a column
\* missing from a live table, an edge without conditions, an edge with more
\* conditions than the join takes
JoinPathError == {"JoinError", "KeyError", "ValueError", "TypeError"}

C4_OrderIndependent ==
    (pc = "done" /\ prev.outcome = "join" /\ outcome = "join") =>
        /\ JoinTables(select_from) = prev.tables
        /\ Conditions(select_from) = prev.conditions

(***************************************************************************)
(* Claims on the evaluation of a Query (SpecTree).  The rows range over    *)
(* every assignment of a cell to the numeric columns of the schema.        *)
(***************************************************************************)
NumericColumns ==
    {<<"exposure", "ra">>, <<"exposure", "dec">>, <<"visit1_quicklook", "exp_time">>}

Cells == {<<>>, <<-1>>, <<0>>, <<1>>}

Rows == [NumericColumns -> Cells]

\* the QueryResult of each child of the ParentQuery in query
ChildResults == [k \in DOMAIN query.children |-> Query_call(query.children[k], tables)]

ChildrenEvaluate ==
    \A k \in DOMAIN ChildResults :
        ChildResults[k].error = "none" /\ ChildResults[k].result.kind # "QueryResult"

\* the truth values of the children on a row
ChildValues(row) == [k \in DOMAIN ChildResults |-> Sem(ChildResults[k].result, row)]

Definite(vs) == \A k \in DOMAIN vs : vs[k] # "N"

SomeTrue(vs) == \E k \in DOMAIN vs : vs[k] = "T"

AllTrue(vs) == \A k \in DOMAIN vs : vs[k] = "T"

EvaluatedParent(operator) ==
    /\ pc = "evaluated"
    /\ query.class = "ParentQuery"
    /\ query.operator = operator
    /\ ChildrenEvaluate

\* C8: a ParentQuery with operator XOR over n >= 1 children that evaluate is
\* true on a row exactly when at least one child is true and not all children
\* are true, for every assignment of truth values to the children; for two
\* children this is binary exclusive or.
C8_XorNotParity ==
    (EvaluatedParent("XOR") /\ Len(query.children) >= 1) =>
        /\ query_result.error = "none"
        /\ \A row \in Rows :
              LET vs == ChildValues(row)
                  value == Sem(query_result.result, row)
              IN Definite(vs) =>
                    /\ value = Bool3(SomeTrue(vs) /\ ~AllTrue(vs))
                    /\ Len(vs) = 2 => value = Bool3(vs[1] # vs[2])

\* three children, all of them true on some row, and the XOR is false there
C8_Witness ==
    /\ EvaluatedParent("XOR")
    /\ Len(query.children) = 3
    /\ \E row \in Rows : AllTrue(ChildValues(row)) /\ Sem(query_result.result, row) = "F"

\* C9 as stated: a ParentQuery with operator NOT over n >= 1 children that
\* evaluate is evaluated without error to the negation of the conjunction of
\* its children.
C9_Original ==
    (EvaluatedParent("NOT") /\ Len(query.children) >= 1) =>
        /\ query_result.error = "none"
        /\ \A row \in Rows : Sem(query_result.result, row) = Not3(And3(ChildValues(row)))

\* C9: a ParentQuery with operator NOT and exactly one child evaluates to the
\* negation of that child and touches the tables of the child; with any other
\* number of children that evaluate, the call raises QueryError.
C9_NotTakesOneChild ==
    EvaluatedParent("NOT") =>
        IF Len(query.children) = 1
        THEN /\ query_result.error = "none"
             /\ query_result.tables = ChildResults[1].tables
             /\ \A row \in Rows : Sem(query_result.result, row) = Not3(ChildValues(row)[1])
        ELSE query_result.error = "QueryError"

\* NOT over two children that evaluate raises QueryError
C9_Witness ==
    /\ EvaluatedParent("NOT")
    /\ Len(query.children) = 2
    /\ query_result.error = "QueryError"

\* a comparison node that carries both the left pair and the right pair
IsRangeNode(d) ==
    /\ HasKeys(d, {"type", "field", "leftOperator", "leftValue", "rightOperator", "rightValue"})
    /\ d.type = "EqualityQuery"

\* the explicit AND over the left-only node and the right-only node of wire
ExplicitAnd == ParentNode("AND", <<LeftOnly(wire), RightOnly(wire)>>)

\* C10: a comparison node with both pairs is built as the ParentQuery AND of
\* the Query of its left-only node and the Query of its right-only node (and is
\* rejected exactly when one of the two is), which is what from_dict builds
\* for the explicit AND node; called, it gives the QueryResult of the explicit
\* AND: the conjunction of the two comparisons and the union of their tables.
C10_RangeSugarIsAnd ==
    (pc \in {"parsed", "rejected", "evaluated"} /\ IsRangeNode(wire)) =>
        LET left == Query_from_dict(LeftOnly(wire))
            right == Query_from_dict(RightOnly(wire))
            explicit == Query_from_dict(ExplicitAnd)
        IN /\ query.class = explicit.class
           /\ IF left.class = "QueryError" \/ right.class = "QueryError"
              THEN query.class = "QueryError"
              ELSE /\ query.class = "ParentQuery"
                   /\ query.operator = "AND"
                   /\ query.children = <<left, right>>
                   /\ query = explicit
           /\ pc = "evaluated" =>
                 LET l == Query_call(left, tables)
                     r == Query_call(right, tables)
                 IN /\ query_result = Query_call(explicit, tables)
                    /\ IF l.error # "none" THEN query_result.error = l.error
                       ELSE IF r.error # "none" THEN query_result.error = r.error
                       ELSE /\ query_result.error = "none"
                            /\ query_result.result = and_(<<l.result, r.result>>)
                            /\ query_result.tables = l.tables \cup r.tables
                            /\ {l.result.kind, r.result.kind} \subseteq comparison_operators =>
                                  \A row \in Rows :
                                      Sem(query_result.result, row)
                                          = And3(<<Sem(l.result, row), Sem(r.result, row)>>)

\* a node with both pairs and comparison operators, evaluated: a predicate
\* that is true on some row and false on another
C10_Witness ==
    /\ pc = "evaluated"
    /\ IsRangeNode(wire)
    /\ wire.leftOperator = "le"
    /\ wire.rightOperator = "le"
    /\ query_result.error = "none"
    /\ query_result.tables = {"exposure"}
    /\ \E row \in Rows : Sem(query_result.result, row) = "T"
    /\ \E row \in Rows : Sem(query_result.result, row) = "F"

\* a comparison node that carries the left pair only, with a supported
\* operator, on a column of the schema
IsLeftNode(d) ==
    /\ HasKeys(d, {"type", "field", "leftOperator", "leftValue"})
    /\ ~HasKeys(d, {"rightOperator"})
    /\ d.type = "EqualityQuery"
    /\ d.leftOperator \in comparison_operators \cup text_operators
    /\ HasKeys(d.field, {"schema", "name"})
    /\ <<d.field.schema, d.field.name>> \in NumericColumns

\* the mirror of an operator: lt <-> gt, le <-> ge, the others unchanged
Mirror(o) ==
    CASE o = "lt" -> "gt"
      [] o = "gt" -> "lt"
      [] o = "le" -> "ge"
      [] o = "ge" -> "le"
      [] OTHER -> o

\* 'v op cell' for a comparison operator, in three-valued logic
ValueOpCell(o, v, cell) ==
    IF cell = <<>> THEN "N"
    ELSE LET c == cell[1]
         IN Bool3(CASE o = "eq" -> v = c
                    [] o = "ne" -> v # c
                    [] o = "lt" -> v < c
                    [] o = "le" -> v <= c
                    [] o = "gt" -> v > c
                    [] o = "ge" -> v >= c)

\* C11: a comparison node carrying only leftOperator = op and leftValue = v,
\* op one of eq, ne, lt, le, gt, ge, startswith, endswith, contains, is
\* accepted and built as the comparison 'column op' v' with op' the mirror of
\* op; called, it evaluates without error and, for the six comparisons, is
\* true on exactly the rows where 'v op column' is true.
C11_LeftOperatorMirrored ==
    (pc \in {"parsed", "rejected", "evaluated"} /\ IsLeftNode(wire)) =>
        /\ pc # "rejected"
        /\ query.class = "EqualityQuery"
        /\ query.column = <<wire.field.schema, wire.field.name>>
        /\ query.operator = Mirror(wire.leftOperator)
        /\ query.value = wire.leftValue
        /\ pc = "evaluated" =>
              /\ query_result.error = "none"
              /\ wire.leftOperator \in comparison_operators =>
                    \A row \in Rows :
                        Sem(query_result.result, row)
                            = ValueOpCell(wire.leftOperator, wire.leftValue, row[query.column])

\* the tables of the comparisons anywhere in a Query
RECURSIVE LeafTables(_)
LeafTables(q) ==
    IF q.class = "EqualityQuery" THEN {q.column[1]}
    ELSE UNION {LeafTables(q.children[k]) : k \in DOMAIN q.children}

\* the nesting depth of a Query
RECURSIVE Depth(_)
Depth(q) ==
    IF q.class = "EqualityQuery" \/ q.children = <<>> THEN 1
    ELSE LET ds == {Depth(q.children[k]) : k \in DOMAIN q.children}
         IN 1 + CHOOSE d \in ds : \A e2 \in ds : e2 <= d

\* C12: when the call of a Query returns, the table set of its QueryResult is
\* the union of the tables of all comparisons anywhere in the Query, at any
\* depth and under any operator: no table is missing and none is added.
C12_TablesAreLeafTables ==
    (pc = "evaluated" /\ query_result.error = "none") =>
        query_result.tables = LeafTables(query)

\* a tree of depth 3 whose only comparison on visit1_quicklook is a grandchild
\* and is not in the last child
C12_Witness ==
    /\ pc = "evaluated"
    /\ query_result.error = "none"
    /\ query.class = "ParentQuery"
    /\ query.operator = "AND"
    /\ Len(query.children) = 2
    /\ Depth(query) = 3
    /\ LeafTables(query.children[2]) = {"exposure"}
    /\ query_result.tables = {"exposure", "visit1_quicklook"}

\* a wire tree with, at any depth, a node that misses a required key, has a
\* field that is not a dict of schema and name, or has an unknown type tag
RECURSIVE Defective(_)
Defective(d) ==
    \/ ~HasKeys(d, {"type"})
    \/ /\ HasKeys(d, {"type"})
       /\ \/ d.type \notin {"EqualityQuery", "ParentQuery"}
          \/ /\ d.type = "EqualityQuery"
             /\ \/ ~HasKeys(d, {"field"})
                \/ HasKeys(d, {"field"}) /\ ~HasKeys(d.field, {"schema", "name"})
                \/ /\ ~HasKeys(d, {"leftOperator", "leftValue"})
                   /\ ~HasKeys(d, {"rightOperator", "rightValue"})
          \/ /\ d.type = "ParentQuery"
             /\ \/ ~HasKeys(d, {"children", "operator"})
                \/ /\ HasKeys(d, {"children", "operator"})
                   /\ \E k \in DOMAIN d.children : Defective(d.children[k])

\* the node itself has a type tag that is not a known type
UnknownType(d) ==
    HasKeys(d, {"type"}) /\ d.type \notin {"EqualityQuery", "ParentQuery"}

\* C13 as stated: a defective wire tree is rejected by from_dict with a
\* QueryError that carries the offending fragment.
C13_Original ==
    (pc \in {"parsed", "rejected", "evaluated"} /\ Defective(wire)) =>
        /\ pc = "rejected"
        /\ query.class = "QueryError"
        /\ query.carried # NoDict
        /\ Defective(query.carried)

\* C13: a defective wire tree is rejected by from_dict with QueryError, no
\* Query is built and the call never happens; the error carries the whole
\* dict given to from_dict (which contains the offending node), except that
\* it carries nothing when the type tag of the outermost node is unknown.
C13_DefectsRejectedEagerly ==
    (pc \in {"parsed", "rejected", "evaluated"} /\ Defective(wire)) =>
        /\ pc = "rejected"
        /\ query_result = NoResult
        /\ query.class = "QueryError"
        /\ query.carried = IF UnknownType(wire) THEN NoDict ELSE wire

\* a tree rejected for a grandchild with an unknown type tag
C13_Witness ==
    /\ pc = "rejected"
    /\ wire.type = "ParentQuery"
    /\ HasKeys(wire, {"children", "operator"})
    /\ Len(wire.children) = 2
    /\ ~Defective(wire.children[1])
    /\ wire.children[2].type = "ParentQuery"
    /\ UnknownType(wire.children[2].children[1])
    /\ query.class = "QueryError"
    /\ query.carried = wire

\* some node of the Query carries an operator outside the supported ones
RECURSIVE HasUnrecognizedOperator(_)
HasUnrecognizedOperator(q) ==
    IF q.class = "EqualityQuery"
    THEN q.operator \notin comparison_operators \cup text_operators
    ELSE \/ q.operator \notin {"AND", "OR", "NOT", "XOR"}
         \/ \E k \in DOMAIN q.children : HasUnrecognizedOperator(q.children[k])

\* every comparison of the Query is on a column of the schema
RECURSIVE LeafColumnsKnown(_)
LeafColumnsKnown(q) ==
    IF q.class = "EqualityQuery"
    THEN q.column[1] \in DOMAIN tables /\ q.column[2] \in tables[q.column[1]]
    ELSE \A k \in DOMAIN q.children : LeafColumnsKnown(q.children[k])

\* C14: the call of a Query (on columns of the schema) in which some node
\* carries an unrecognized operator, a comparison outside eq, ne, lt, le, gt,
\* ge, startswith, endswith, contains or a ParentQuery outside AND, OR, NOT,
\* XOR, with or without children, raises QueryError and yields no predicate.
C14_UnrecognizedOperatorFails ==
    (pc = "evaluated" /\ LeafColumnsKnown(query) /\ HasUnrecognizedOperator(query)) =>
        /\ query_result.error = "QueryError"
        /\ query_result.result = NoClause

(***************************************************************************)
(* Claims on ConsDbSchema.get_column (SpecColumn).                         *)
(***************************************************************************)
\* the positions of the dots of a reference
Dots(ref) == {k \in DOMAIN ref : ref[k] = "."}

\* the tokens before the first dot and after the last dot
BeforeDot(ref) ==
    SubSeq(ref, 1, (CHOOSE k \in Dots(ref) : \A m \in Dots(ref) : k <= m) - 1)

AfterDot(ref) ==
    SubSeq(ref, (CHOOSE k \in Dots(ref) : \A m \in Dots(ref) : m <= k) + 1, Len(ref))

\* the reference is malformed: not exactly one dot, or an empty part
Malformed(ref) ==
    \/ Cardinality(Dots(ref)) # 1
    \/ BeforeDot(ref) = <<>>
    \/ AfterDot(ref) = <<>>

\* the reference is well formed and names a column of a table of the schema
Known(ref) ==
    /\ ~Malformed(ref)
    /\ Len(BeforeDot(ref)) = 1
    /\ Len(AfterDot(ref)) = 1
    /\ BeforeDot(ref)[1] \in DOMAIN tables
    /\ AfterDot(ref)[1] \in tables[BeforeDot(ref)[1]]

Looked == looked_up.error # "unset"

\* C15 as stated: get_column fails with InvalidReferenceError for every
\* reference that is malformed or names an unknown table or column.
C15_Original ==
    (Looked /\ ~Known(reference)) =>
        looked_up.error = "InvalidReferenceError" /\ looked_up.column = <<>>

\* C15: get_column returns no column and raises for every reference that is
\* malformed or unknown: ValueError when the string has no dot or more than
\* one dot, KeyError when it has one dot and the table part or the column
\* part is empty or unknown; for a known reference it returns the column.
C15_GetColumnRaises ==
    Looked =>
        IF Known(reference)
        THEN /\ looked_up.error = "none"
             /\ looked_up.column = <<BeforeDot(reference)[1], AfterDot(reference)[1]>>
        ELSE /\ looked_up.column = <<>>
             /\ looked_up.error
                    = IF Cardinality(Dots(reference)) # 1 THEN "ValueError" ELSE "KeyError"

\* a reference with an empty column part ("exposure.") raises KeyError
C15_Witness ==
    /\ Looked
    /\ reference = <<"exposure", ".">>
    /\ looked_up.error = "KeyError"

(***************************************************************************)
(* Claims on ConsDbSchema.query (SpecQuery).                             *)
(***************************************************************************)
\* the tables of the requested columns; every requested column resolves
ColumnTables == {columns[k][1] : k \in DOMAIN columns}

ColumnsResolve ==
    columns # <<>> /\ \A k \in DOMAIN columns : ColumnError(tables, columns[k]) = "none"

\* no predicate, or a predicate that evaluates
PredicateEvaluates == query = NoQuery \/ Query_call(query, tables).error = "none"

PredicateTables == IF query = NoQuery THEN {} ELSE Query_call(query, tables).tables

\* a running or finished call whose columns all belong to table t and whose
\* predicate, if any, touches no other table
SingleTableCall(t) ==
    /\ pc # "idle"
    /\ ColumnsResolve
    /\ ColumnTables = {t}
    /\ PredicateEvaluates
    /\ PredicateTables \subseteq {t}

Finished == pc \in {"done", "fetched"}

BareTable(t) == <<[table |-> t, on |-> <<>>]>>

C7_PredicateTablesJoined ==
    (pc # "idle" /\ table_names # {} /\ PredicateEvaluates) =>
        /\ PredicateTables \subseteq table_names
        /\ (pc \in {"for_i", "for_j"} \/ (Finished /\ outcome \in {"join", "JoinError", "KeyError", "ValueError"}))
              => PredicateTables \subseteq Range(tables_list)
        /\ (Finished /\ outcome = "join") =>
              /\ PredicateTables \subseteq JoinTables(select_from)
              /\ ClauseTables(query_model) \subseteq JoinTables(select_from)
              /\ {tc.column[1] : tc \in table_columns} \subseteq JoinTables(select_from)

\* a predicate on a table that holds no requested column and not the data ids;
\* the statement was executed and returned rows
C7_Witness ==
    /\ pc = "fetched"
    /\ query # NoQuery
    /\ \E t \in PredicateTables : t \notin ColumnTables /\ t # data_id_columns[1][1]
    /\ result # {}

\* a template of the list names the two tables, in either order
DirectTemplate(a, b) == \E k \in DOMAIN joins : {joins[k].t1, joins[k].t2} = {a, b}

\* the requested columns belong to two tables that no template joins directly
\* and that the join graph connects
TwoTablesIndirect ==
    /\ ColumnsResolve
    /\ Cardinality(ColumnTables) = 2
    /\ \A a, b \in ColumnTables :
          a # b => (~DirectTemplate(a, b) /\ Connected(join_graph, a, b))

\* the column pairs (column of a, column of b) of the last template of the
\* list that names a and b
TemplatePairs(a, b) ==
    LET k == CHOOSE k \in DOMAIN joins :
                 /\ {joins[k].t1, joins[k].t2} = {a, b}
                 /\ \A m \in DOMAIN joins : {joins[m].t1, joins[m].t2} = {a, b} => m <= k
        t == joins[k]
    IN IF t.t1 = a THEN Zip(t.c1, t.c2) ELSE Zip(t.c2, t.c1)

\* the template of a and b has one to three column pairs, and only columns
\* the tables have
TemplateUsable(a, b) ==
    LET pairs == TemplatePairs(a, b)
    IN /\ pairs # <<>>
       /\ Len(pairs) <= MaxJoinArguments
       /\ \A k \in DOMAIN pairs : pairs[k][1] \in tables[a] /\ pairs[k][2] \in tables[b]

\* so has every template along the paths found to the tables to join
TemplatesOnPathsUsable ==
    \A t \in Requested :
        LET p == find_join_path(join_graph, Anchor, t).path
        IN \A k \in 1..(Len(p) - 1) : TemplateUsable(p[k], p[k + 1])

\* the pairs of tables the join was chained along
JoinedEdges(sf) == {<<sf[k].on[1][1], sf[k].table>> : k \in 2..Len(sf)}

\* every choice of one row from each table of T
RECURSIVE Product(_)
Product(T) ==
    IF Cardinality(T) = 1
    THEN {[t \in T |-> r] : r \in TableRows[CHOOSE t \in T : TRUE]}
    ELSE LET t == CHOOSE t \in T : TRUE
         IN {[u \in T |-> IF u = t THEN r ELSE c[u]] : r \in TableRows[t], c \in Product(T \ {t})}

\* the relational inner equi-join of the joined tables on the column pairs of
\* the templates, restricted to the rows with no NULL in a selected column,
\* with a true predicate and, when data ids are given, with one of the data ids
RelationalJoin ==
    {c \in Product(JoinTables(select_from)) :
        /\ \A e \in JoinedEdges(select_from) :
              \A k \in DOMAIN TemplatePairs(e[1], e[2]) :
                 LET pair == TemplatePairs(e[1], e[2])[k]
                 IN c[e[1]][pair[1]] # <<>> /\ c[e[1]][pair[1]] = c[e[2]][pair[2]]
        /\ \A tc \in table_columns : c[tc.column[1]][tc.column[2]] # <<>>
        /\ query # NoQuery => Sem(query_result.result, FlatRow(c)) = "T"
        /\ data_ids.given =>
              <<c[data_id_columns[1][1]].day_obs[1], c[data_id_columns[1][1]].seq_num[1]>>
                  \in data_ids.ids}

\* the rows returned are those of the relational join, each with the cells of
\* the selected columns
RowsAreRelationalJoin ==
    /\ {r.source : r \in result} = RelationalJoin
    /\ \A r \in result : \A tc \in table_columns :
          r.values[tc.label] = r.source[tc.column[1]][tc.column[2]]

Projected == {tc.column : tc \in table_columns}

ResultKeys == {tc.label : tc \in table_columns}

\* the identifier table of the family of a requested table
FamilyIdTable(t) == IF t \in {"visit1", "visit1_quicklook", "ccdvisit1"} THEN "visit1" ELSE "exposure"

\* C16 as stated: when query() returns rows, the declared index columns of
\* every table referenced by the requested columns are projected.
C16_Original ==
    pc = "fetched" =>
        \A t \in ColumnTables : \A c \in index_columns[t] : <<t, c>> \in Projected

\* C16: when query() returns rows, the projection holds the requested columns
\* and, requested or not, the day_obs and seq_num columns of one table only:
\* the identifier table (visit1 or exposure) of the family of one of the
\* requested tables; every returned row carries the two values under the
\* keys day_obs and seq_num.  Declared index columns play no part.
C16_OneIdentifierTable ==
    pc = "fetched" =>
        \E t \in ColumnTables :
            LET id_table == FamilyIdTable(t)
            IN /\ data_id_columns = << <<id_table, "day_obs">>, <<id_table, "seq_num">> >>
               /\ Projected = Range(columns) \cup Range(data_id_columns)
               /\ \A r \in result :
                     /\ r.values[<<"day_obs">>] = r.source[id_table].day_obs
                     /\ r.values[<<"seq_num">>] = r.source[id_table].seq_num

\* rows returned for columns of exposure and of visit1_quicklook, with the
\* identifiers of visit1 and without those of exposure
C16_Witness ==
    /\ pc = "fetched"
    /\ ColumnTables = {"exposure", "visit1_quicklook"}
    /\ result # {}
    /\ <<"visit1", "day_obs">> \in Projected
    /\ <<"exposure", "day_obs">> \notin Projected
    /\ <<"visit1_quicklook", "visit_id">> \notin Projected

\* C17 as stated: every key of the mapping returned by query() is a
\* 'table.column' name, the keys of the added identifier columns included.
C17_Original ==
    pc = "fetched" => \A key \in ResultKeys : Len(key) = 2

\* C17: the mapping returned by query() has one key 'table.column' for each
\* requested column and the two keys 'day_obs' and 'seq_num', without table
\* name, for the added identifier columns; every row has exactly these keys,
\* each key stands for one column, and the value under it is the cell of
\* that column, so two columns with the same bare name never share a key.
C17_KeysOfResult ==
    pc = "fetched" =>
        /\ ResultKeys = Range(columns) \cup {<<"day_obs">>, <<"seq_num">>}
        /\ \A a \in table_columns, b \in table_columns : a.label = b.label => a.column = b.column
        /\ \A tc \in table_columns :
              tc.label = IF tc.column \in Range(columns) /\ Len(tc.label) = 2
                         THEN tc.column ELSE <<tc.column[2]>>
        /\ \A r \in result :
              /\ DOMAIN r.values = ResultKeys
              /\ \A tc \in table_columns :
                    r.values[tc.label] = r.source[tc.column[1]][tc.column[2]]

\* rows returned for visit1.visit_id and ccdvisit1.visit_id, two columns
\* with the same bare name, each under its own key
C17_Witness ==
    /\ pc = "fetched"
    /\ Range(columns) = {<<"visit1", "visit_id">>, <<"ccdvisit1", "visit_id">>}
    /\ result # {}
    /\ \A r \in result :
          DOMAIN r.values = {<<"visit1", "visit_id">>, <<"ccdvisit1", "visit_id">>,
                             <<"day_obs">>, <<"seq_num">>}

\* the rows of the FROM list of the executed statement
FromRows ==
    CrossRows(JoinRows(select_from, Len(select_from)),
              (ClauseTables(query_model) \cup {tc.column[1] : tc \in table_columns})
                  \ JoinTables(select_from))

\* C18: every row returned by query() has a non-null value in every projected
\* column, whatever the predicate (ne, NOT, OR, XOR included) and whether or
\* not data ids are given.
C18_NoNullReturned ==
    pc = "fetched" =>
        \A r \in result : \A key \in DOMAIN r.values : r.values[key] # <<>>

\* a predicate built with ne, NOT, OR or XOR is true on a joined row that has
\* a NULL in a projected column, and that row is not returned
C18_Witness ==
    /\ pc = "fetched"
    /\ result # {}
    /\ query_result.error = "none"
    /\ query_result.result.kind \in {"ne", "not", "or", "and"}
    /\ \E c \in FromRows :
          /\ Sem(query_result.result, FlatRow(c)) = "T"
          /\ \E tc \in table_columns : c[tc.column[1]][tc.column[2]] = <<>>
          /\ \A r \in result : r.source # c

(***************************************************************************)
(* Claims on the commands (SpecCommand).                                   *)
(***************************************************************************)
\* the reference names a table or a column that is not in the schema
NamesUnknown(ref) ==
    /\ Cardinality(Dots(ref)) = 1
    /\ Len(BeforeDot(ref)) = 1
    /\ Len(AfterDot(ref)) = 1
    /\ ~Known(ref)

\* the command names a table or a column that is not in the schema
CommandNamesUnknown ==
    \/ command.name = "get bounds" /\ NamesUnknown(command.column)
    \/ /\ command.name = "load columns"
       /\ \E k \in DOMAIN command.columns : NamesUnknown(command.columns[k])

\* the requested columns of a load columns command, as ConsDbSchema.query
\* gets them
CommandColumns ==
    [k \in DOMAIN command.columns |->
        [n \in DOMAIN split(command.columns[k]) |-> split(command.columns[k])[n][1]]]

BoundedValues ==
    LET column == <<BeforeDot(command.column)[1], AfterDot(command.column)[1]>>
        cells == IF column = <<"exposure", "ra">> THEN Range(stored)
                 ELSE {r[column[2]] : r \in TableRows[column[1]]}
    IN {c[1] : c \in cells \ {<<>>}}

\* C20: calculate_bounds on a column that has a non-null value returns (m, M) with
\* m the least and M the greatest of the non-null values of the column, so
\* m <= M and the NULLs of the column play no part; for the values -40, -30,
\* NULL, -10, 0, 10, NULL, 30, 40, 50 the bounds are (-40, 50).
C20_BoundsAreMinMax ==
    (pc \in {"built", "responded"} /\ command.name = "get bounds" /\ Known(command.column)) =>
        /\ contents.error = "none"
        /\ contents.content.column = command.column
        /\ BoundedValues # {} =>
              LET m == contents.content.bounds[1]
                  M == contents.content.bounds[2]
              IN /\ m # <<>> /\ M # <<>>
                 /\ m[1] \in BoundedValues /\ M[1] \in BoundedValues
                 /\ \A v \in BoundedValues : m[1] <= v /\ v <= M[1]
                 /\ m[1] <= M[1]
        /\ (command.column = <<"exposure", ".", "ra">> /\ stored = TestValues) =>
              contents.content.bounds = << <<-40>>, <<50>> >>

\* the bounds of the test column, NULLs included in the column: (-40, 50)
C20_Witness ==
    /\ pc = "built"
    /\ command.name = "get bounds"
    /\ command.column = <<"exposure", ".", "ra">>
    /\ stored = TestValues
    /\ contents.error = "none"
    /\ contents.content.bounds = << <<-40>>, <<50>> >>

\* C21: calculate_bounds on a column that holds no non-null value (an empty
\* table or a column of NULLs only) raises a descriptive ValueError and
\* returns no pair of bounds.
C21_NoValueRaises ==
    (/\ pc \in {"built", "responded"}
     /\ command.name = "get bounds"
     /\ Known(command.column)
     /\ BoundedValues = {}) =>
        /\ contents.error = "ValueError"
        /\ DOMAIN contents = {"error"}

\* C22: whenever no statement of a request is running (the service is idle, or
\* a call of fetch_data or calculate_bounds has returned or raised), no
\* connection of the engine is checked out.
C22_ConnectionsReleased ==
    pc \in {"idle", "returned", "raised"} => connections = 0

\* C23: the shared schema state is what start-up made it: the tables, the
\* join graph and the metadata are never modified by a request.
C23_SharedStateReadOnly ==
    /\ tables = LiveTables
    /\ join_graph = build_join_graph(tables, joins)
    /\ metadata = StartMetadata(tables)

(***************************************************************************)
(* Claims on the steps of build_join (SpecJoin).                           *)
(***************************************************************************)
\* the while loop of _find_join_path after at most k iterations
RECURSIVE BfsAfter(_, _, _, _)
BfsAfter(graph, st, end, k) ==
    IF k = 0 \/ st.found # <<>> \/ st.queue = <<>> THEN st
    ELSE BfsAfter(graph, BfsStep(graph, st, end), end, k - 1)

\* the entries a search can put on its queue: the start, and one for each
\* end of an edge
BfsBound(graph) ==
    1 + Cardinality(UNION {{<<t, k>> : k \in DOMAIN graph[t]} : t \in DOMAIN graph})

\* every search on the join graph has returned or raised within the bound
BfsTerminates ==
    \A a, b \in DOMAIN join_graph :
        LET st == BfsAfter(join_graph,
                           [queue |-> <<[node |-> a, path |-> <<a>>]>>,
                            visited |-> {}, found |-> <<>>], b, BfsBound(join_graph))
        IN st.found # <<>> \/ st.queue = <<>>

\* C24: join resolution terminates on every join graph, with cycles and with
\* unconnected tables: every search of _find_join_path ends within as many
\* iterations as the graph has edge ends plus one, and every build_join that
\* has started returns or raises.
C24_JoinResolutionTerminates ==
    /\ [](BfsTerminates)
    /\ (pc \in {"for_i", "for_j"}) ~> (pc = "done")

\* a resolution has ended on a graph with the cycle exposure - visit1 -
\* visit1_quicklook and the unconnected table ccdvisit1, which was requested
C24_Witness ==
    /\ pc = "done"
    /\ outcome = "JoinError"
    /\ IsEdge(join_graph, "exposure", "visit1")
    /\ IsEdge(join_graph, "visit1", "visit1_quicklook")
    /\ IsEdge(join_graph, "visit1_quicklook", "exposure")
    /\ join_graph["ccdvisit1"] = <<>>
    /\ "ccdvisit1" \in Range(tables_list)
    /\ find_calls >= 2

\* the tables of the join before its k-th entry
JoinedBefore(k) == {select_from[m].table : m \in 1..(k - 1)}

\* C25: at every step of build_join the join is a tree rooted at the anchor:
\* it starts with the anchor, no table is in it twice, and every other table
\* is attached to a table that was joined before it, by all the column-pair
\* conditions of the edge between the two.
C25_JoinIsTree ==
    pc \in {"for_i", "for_j", "done"} =>
        /\ select_from[1] = [table |-> tables_list[1], on |-> <<>>]
        /\ \A k, m \in DOMAIN select_from : select_from[k].table = select_from[m].table => k = m
        /\ joined_tables = JoinTables(select_from)
        /\ \A k \in 2..Len(select_from) :
              \E t1 \in JoinedBefore(k) :
                  /\ IsEdge(join_graph, t1, select_from[k].table)
                  /\ select_from[k].on =
                        JoinConditions(t1, select_from[k].table,
                                       DictGet(join_graph[t1], select_from[k].table))

(***************************************************************************)
(* Claims on the graph _build_join_graph returns (Spec).                   *)
(***************************************************************************)
\* the templates of the list whose two tables are loaded
Registered == {k \in DOMAIN joins : {joins[k].t1, joins[k].t2} \subseteq DOMAIN tables}

\* C26: in the join graph every node and every neighbour is a loaded table; a
\* template that names a table which is not loaded gives no edge, and every
\* template of two loaded tables gives an edge in both directions, wherever
\* the two stand in the list.
C26_GraphOfLoadedTables ==
    /\ DOMAIN join_graph = DOMAIN tables
    /\ \A t \in DOMAIN join_graph : Range(DictKeys(join_graph[t])) \subseteq DOMAIN tables
    /\ \A a, b \in DOMAIN join_graph :
          IsEdge(join_graph, a, b) <=>
              \E k \in Registered : {joins[k].t1, joins[k].t2} = {a, b}

\* a template of the unloaded table ccdexposure stands between two templates
\* of loaded tables, and both of these gave their edges
C26_Witness ==
    /\ Len(joins) = 3
    /\ joins[2].t2 = "ccdexposure"
    /\ Registered = {1, 3}
    /\ IsEdge(join_graph, joins[1].t1, joins[1].t2)
    /\ IsEdge(join_graph, joins[3].t2, joins[3].t1)
    /\ {joins[1].t1, joins[1].t2} # {joins[3].t1, joins[3].t2}

\* the pairs of loaded tables that several templates of the list relate
RelatedTwice ==
    {ab \in (DOMAIN tables) \X (DOMAIN tables) :
        Cardinality({k \in Registered : {joins[k].t1, joins[k].t2} = {ab[1], ab[2]}}) >= 2}

\* C27: the edge between two tables that templates relate carries the column
\* pairs of the last of these templates, read from the side of each table, so
\* that the two directions are mirror images pair by pair.
C27_LastTemplateWins ==
    \A a, b \in DOMAIN tables :
        (\E k \in Registered : {joins[k].t1, joins[k].t2} = {a, b}) =>
            LET ab == DictGet(join_graph[a], b)
                ba == DictGet(join_graph[b], a)
            IN /\ ab = TemplatePairs(a, b)
               /\ Len(ab) = Len(ba)
               /\ \A k \in DOMAIN ab : ba[k] = <<ab[k][2], ab[k][1]>>

\* two templates relate exposure and ccdvisit1, naming them in opposite
\* orders; the edge has the column pair of the second one
C27_Witness ==
    /\ <<"exposure", "ccdvisit1">> \in RelatedTwice
    /\ \E k, m \in Registered :
          /\ k < m
          /\ joins[k].t1 = "ccdvisit1" /\ joins[k].t2 = "exposure"
          /\ joins[m].t1 = "exposure" /\ joins[m].t2 = "ccdvisit1"
    /\ DictGet(join_graph["exposure"], "ccdvisit1") = << <<"exposure_id", "detector">> >>
    /\ DictGet(join_graph["ccdvisit1"], "exposure") = << <<"detector", "exposure_id">> >>

(***************************************************************************)
(* Claims on the mock server (SpecServer).                                 *)
(***************************************************************************)
\* C28: every reply the server has written to a client is the reply to a
\* message of that client.
C28_ReplyToRequester ==
    \A d \in delivered : d.reply[1] = d.client

WorkerConnected(w) == \E k \in DOMAIN workers : workers[k].wid = w

InQueue(m) == \E k \in DOMAIN queue : queue[k].message = m

\* C29: if from some point on a worker stays connected (and, by the fairness
\* of SpecServer, every job a connected worker was sent is answered), every
\* message that is in the queue is eventually handed to a worker.
C29_QueuedEventuallySent ==
    (\E w \in WorkerIds : <>[]WorkerConnected(w)) =>
        \A m \in Messages : InQueue(m) ~> (m \in dispatched)

(***************************************************************************)
(* Claims on sanitize_path (SpecPath).                                     *)
(***************************************************************************)
\* the directories down to a path, from the root
Directories(path) ==
    SelectSeq(SplitSlash(os_path_abspath(path)), LAMBDA comp : comp # <<>>)

\* the path is the base directory or a descendant of it
Inside(base, path) ==
    LET root == Directories(base)
        full == Directories(path)
    IN Len(root) <= Len(full) /\ SubSeq(full, 1, Len(root)) = root

\* C30: sanitize_path returns only the base directory or a path below it; for
\* every other path, a sibling directory whose name begins with the name of
\* the base directory included, it raises ValueError.
C30_NeverOutsideBase ==
    sanitized.error # "unset" =>
        /\ sanitized.error = "none" => Inside(base_path, sanitized.path)
        /\ ~Inside(base_path, os_path_normpath(os_path_join(base_path, user_path))) =>
              sanitized.error = "ValueError"

====
